---- MODULE Spec2Model ----
(***************************************************************************)
(* A model of primitive_db: the schema-aware CRUD core (core.py), the      *)
(* command handlers and the interactive loop (engine.py), the decorators   *)
(* (decorators.py), the JSON store (utils.py) and the command parser       *)
(* (parser.py).                                                            *)
(*                                                                         *)
(* Text is modelled as a sequence of characters, each character a          *)
(* one-symbol string; a Cyrillic letter is written by its code point       *)
(* ("U+0434").  Python values are tagged records (PyInt, PyStr, PyBool,    *)
(* PyNone) and compared with Python's == (PyEq).                           *)
(***************************************************************************)
EXTENDS Integers, Sequences, FiniteSets, TLC

VARIABLES meta, files, mtime, clock, cache, status, out, issued, seen, cmd, line

vars == <<meta, files, mtime, clock, cache, status, out, issued, seen, cmd, line>>

(***************************************************************************)
(* Bounds of the model: the writes of row files in a run and the entries   *)
(* of the select cache, under Spec (MaxWrites, MaxCache), under SpecRows   *)
(* (MaxRowWrites), under SpecCache (MaxCacheWrites, MaxCacheEntries),      *)
(* under SpecInsert, SpecUpdate and SpecTables (the writes), under         *)
(* SpecSelect (MaxSelectWrites, MaxSelectEntries) and under SpecParse      *)
(* (MaxParseWrites, MaxParseEntries).                                      *)
(***************************************************************************)
MaxWrites == 3
MaxCache == 1
MaxRowWrites == 6
MaxCacheWrites == 3
MaxCacheEntries == 2
MaxInsertWrites == 4
MaxUpdateWrites == 4
MaxSelectWrites == 4
MaxSelectEntries == 1
MaxTableWrites == 4
MaxParseWrites == 3
MaxParseEntries == 1

(***************************************************************************)
(* Characters and text.                                                    *)
(***************************************************************************)
Digits == <<"0", "1", "2", "3", "4", "5", "6", "7", "8", "9">>

DigitChars == {Digits[i] : i \in 1..Len(Digits)}

DigitValue(c) == (CHOOSE i \in 1..Len(Digits) : Digits[i] = c) - 1

LowerLetters == {"a", "b", "c", "d", "e", "f", "g", "h", "i", "j", "k", "l", "m",
                 "n", "o", "p", "q", "r", "s", "t", "u", "v", "w", "x", "y", "z",
                 "U+0434", "U+0430", "U+043D", "U+0435", "U+0442"}

UpperLetters == {"A", "B", "D", "E", "F", "I", "N", "O", "S", "T", "Y", "U+0414", "U+0410"}

Blanks == {" ", "\t"}

\* str.lower() on one character.
LowerChar(c) ==
    CASE c = "A" -> "a" [] c = "B" -> "b" [] c = "D" -> "d" [] c = "E" -> "e"
      [] c = "F" -> "f" [] c = "I" -> "i" [] c = "N" -> "n" [] c = "O" -> "o"
      [] c = "S" -> "s" [] c = "T" -> "t" [] c = "Y" -> "y"
      [] c = "U+0414" -> "U+0434" [] c = "U+0410" -> "U+0430"
      [] OTHER -> c

Lower(s) == [i \in 1..Len(s) |-> LowerChar(s[i])]

RECURSIVE LStrip(_)
LStrip(s) == IF s # <<>> /\ Head(s) \in Blanks THEN LStrip(Tail(s)) ELSE s

RECURSIVE RStrip(_)
RStrip(s) ==
    IF s # <<>> /\ s[Len(s)] \in Blanks THEN RStrip(SubSeq(s, 1, Len(s) - 1)) ELSE s

\* str.strip()
Strip(s) == RStrip(LStrip(s))

\* str.isidentifier()
IsIdentifier(s) ==
    /\ s # <<>>
    /\ s[1] \in LowerLetters \cup UpperLetters \cup {"_"}
    /\ \A i \in 2..Len(s) : s[i] \in LowerLetters \cup UpperLetters \cup DigitChars \cup {"_"}

\* c in s
Contains(s, c) == \E i \in 1..Len(s) : s[i] = c

\* s.split(c, 1) of a text that contains c
FirstIndex(s, c) == CHOOSE i \in 1..Len(s) : s[i] = c /\ \A j \in 1..(i - 1) : s[j] # c

SplitHead(s, c) == SubSeq(s, 1, FirstIndex(s, c) - 1)

SplitTail(s, c) == SubSeq(s, FirstIndex(s, c) + 1, Len(s))

RECURSIVE DigitsValue(_)
DigitsValue(s) ==
    IF s = <<>> THEN 0 ELSE 10 * DigitsValue(SubSeq(s, 1, Len(s) - 1)) + DigitValue(s[Len(s)])

RECURSIVE DigitsOf(_)
DigitsOf(n) == IF n < 10 THEN <<Digits[n + 1]>> ELSE Append(DigitsOf(n \div 10), Digits[(n % 10) + 1])

\* str(n) of an integer
StrOfInt(n) == IF n < 0 THEN <<"-">> \o DigitsOf(0 - n) ELSE DigitsOf(n)

\* the text int(s) accepts: blanks around an optionally signed run of digits
IntBody(s) == IF Strip(s) # <<>> /\ Head(Strip(s)) \in {"-", "+"} THEN Tail(Strip(s)) ELSE Strip(s)

IsIntText(s) == IntBody(s) # <<>> /\ \A i \in 1..Len(IntBody(s)) : IntBody(s)[i] \in DigitChars

IntOfText(s) ==
    IF Strip(s) # <<>> /\ Head(Strip(s)) = "-" THEN 0 - DigitsValue(IntBody(s)) ELSE DigitsValue(IntBody(s))

(***************************************************************************)
(* Program constants (constants.py).                                       *)
(***************************************************************************)
ID_COLUMN == <<"I", "D">>

T_int == <<"i", "n", "t">>
T_str == <<"s", "t", "r">>
T_bool == <<"b", "o", "o", "l">>

SUPPORTED_TYPES == {T_int, T_str, T_bool}

YES_ANSWERS == {<<"y">>, <<"y", "e", "s">>, <<"U+0434">>, <<"U+0434", "U+0430">>}

TRUE_TOKENS == {<<"t", "r", "u", "e">>, <<"1">>, <<"y", "e", "s">>, <<"y">>,
                <<"U+0434", "U+0430">>, <<"U+0434">>}

FALSE_TOKENS == {<<"f", "a", "l", "s", "e">>, <<"0">>, <<"n", "o">>, <<"n">>,
                 <<"U+043D", "U+0435", "U+0442">>, <<"U+043D">>}

(***************************************************************************)
(* Python values.                                                          *)
(***************************************************************************)
PyInt(n) == [t |-> "int", i |-> n, s |-> <<>>, b |-> FALSE]
PyStr(x) == [t |-> "str", i |-> 0, s |-> x, b |-> FALSE]
PyBool(x) == [t |-> "bool", i |-> 0, s |-> <<>>, b |-> x]
PyNone == [t |-> "None", i |-> 0, s |-> <<>>, b |-> FALSE]

\* the number a bool or an int value stands for (bool is a subclass of int)
Num(v) == IF v.t = "bool" THEN (IF v.b THEN 1 ELSE 0) ELSE v.i

\* Python's ==
PyEq(x, y) ==
    CASE x.t \in {"int", "bool"} /\ y.t \in {"int", "bool"} -> Num(x) = Num(y)
      [] x.t = "str" /\ y.t = "str" -> x.s = y.s
      [] x.t = "None" /\ y.t = "None" -> TRUE
      [] OTHER -> FALSE

\* str(v)
StrOf(v) ==
    CASE v.t = "str" -> v.s
      [] v.t = "int" -> StrOfInt(v.i)
      [] v.t = "bool" -> IF v.b THEN <<"T", "r", "u", "e">> ELSE <<"F", "a", "l", "s", "e">>
      [] OTHER -> <<"N", "o", "n", "e">>

(***************************************************************************)
(* Results of the core functions: err is the exception raised ("" when the *)
(* call returns), the other fields are what it returns.                    *)
(***************************************************************************)
NoErr == ""
InvalidValue == "InvalidValue"
KeyError == "KeyError"
DBExists == "DBError:exists"
DBMissing == "DBError:missing"

NotFoundErrs == {KeyError, DBMissing}

Ok(v) == [err |-> NoErr, val |-> v]
Raise(e) == [err |-> e, val |-> PyNone]

\* int(v) as the ID loops use it: the number, or a failure
IntOf(v) ==
    CASE v.t \in {"int", "bool"} -> Ok(PyInt(Num(v)))
      [] v.t = "str" /\ IsIntText(v.s) -> Ok(PyInt(IntOfText(v.s)))
      [] OTHER -> Raise("ValueError")

\* core._coerce_value
CoerceValue(type_name, raw) ==
    CASE type_name \notin SUPPORTED_TYPES -> Raise(InvalidValue)
      [] type_name = T_str -> Ok(PyStr(StrOf(raw)))
      [] type_name = T_int ->
            IF raw.t = "bool" THEN Raise(InvalidValue)
            ELSE IF IntOf(raw).err = NoErr THEN IntOf(raw) ELSE Raise(InvalidValue)
      [] OTHER ->
            IF raw.t = "bool" THEN Ok(raw)
            ELSE IF raw.t = "str" /\ Lower(Strip(raw.s)) \in TRUE_TOKENS THEN Ok(PyBool(TRUE))
            ELSE IF raw.t = "str" /\ Lower(Strip(raw.s)) \in FALSE_TOKENS THEN Ok(PyBool(FALSE))
            ELSE Raise(InvalidValue)

(***************************************************************************)
(* Schemas, rows and clauses.  A schema is the ordered column list of      *)
(* metadata["tables"][name]["columns"]; a row is a dict from column name   *)
(* to value; a clause (set or where) is a dict, kept as the sequence of    *)
(* its items in insertion order, its keys distinct.                        *)
(***************************************************************************)
Column(name, type_name) == [name |-> name, type_name |-> type_name]

Item(col, val) == [col |-> col, val |-> val]

Keys(clause) == {clause[i].col : i \in 1..Len(clause)}

\* d.get(key), None when the key is missing
Get(row, col) == IF col \in DOMAIN row THEN row[col] ELSE PyNone

\* d.get(key, 0)
GetOr0(row, col) == IF col \in DOMAIN row THEN row[col] ELSE PyInt(0)

\* the index of the last column called name
LastIndex(cols, name) ==
    CHOOSE i \in 1..Len(cols) : cols[i].name = name /\ \A j \in (i + 1)..Len(cols) : cols[j].name # name

\* core._schema_map: a later column of the same name overwrites an earlier one
SchemaMap(cols) ==
    [n \in {cols[i].name : i \in 1..Len(cols)} |-> cols[LastIndex(cols, n)].type_name]

\* core._parse_column_spec
ParseColumnSpec(spec) ==
    CASE ~Contains(spec, ":") -> Raise(InvalidValue)
      [] ~IsIdentifier(SplitHead(spec, ":")) -> Raise(InvalidValue)
      [] SplitHead(spec, ":") = ID_COLUMN -> Raise(InvalidValue)
      [] SplitTail(spec, ":") \notin SUPPORTED_TYPES -> Raise(InvalidValue)
      [] OTHER -> Ok(Column(SplitHead(spec, ":"), SplitTail(spec, ":")))

\* core._schema_columns: KeyError for a table the metadata does not hold
SchemaColumns(m, table_name) ==
    IF table_name \notin DOMAIN m THEN Raise(KeyError) ELSE Ok(m[table_name])

\* a create_table that replaces the schema of a table the metadata holds
CreateTableReplacing(m, table_name, columns) ==
    CASE ~IsIdentifier(table_name) -> Raise(InvalidValue)
      [] \E i \in 1..Len(columns) : ParseColumnSpec(columns[i]).err # NoErr -> Raise(InvalidValue)
      [] OTHER ->
            Ok([n \in DOMAIN m \cup {table_name} |->
                  IF n = table_name
                  THEN <<Column(ID_COLUMN, T_int)>>
                         \o [i \in 1..Len(columns) |-> ParseColumnSpec(columns[i]).val]
                  ELSE m[n]])

\* core.create_table: the metadata it returns, or the exception
CreateTable(m, table_name, columns) ==
    CASE ~IsIdentifier(table_name) -> Raise(InvalidValue)
      [] table_name \in DOMAIN m -> Raise(DBExists)
      [] \E i \in 1..Len(columns) : ParseColumnSpec(columns[i]).err # NoErr -> Raise(InvalidValue)
      [] OTHER ->
            Ok([n \in DOMAIN m \cup {table_name} |->
                  IF n = table_name
                  THEN <<Column(ID_COLUMN, T_int)>>
                         \o [i \in 1..Len(columns) |-> ParseColumnSpec(columns[i]).val]
                  ELSE m[n]])

\* core.drop_table, the function under the confirmation wrapper
DropTable(m, table_name) ==
    IF table_name \notin DOMAIN m THEN Raise(DBMissing)
    ELSE Ok([n \in DOMAIN m \ {table_name} |-> m[n]])

\* the characters in code-point order, for the comparison of texts
Alphabet == <<"\t", " ", "+", "-", "0", "1", "2", "3", "4", "5", "6", "7", "8", "9", ":", "=",
              "A", "B", "D", "E", "F", "I", "N", "O", "S", "T", "Y", "_",
              "a", "b", "c", "d", "e", "f", "g", "h", "i", "j", "k", "l", "m",
              "n", "o", "p", "q", "r", "s", "t", "u", "v", "w", "x", "y", "z",
              "U+0410", "U+0414", "U+0430", "U+0434", "U+0435", "U+043D", "U+0442">>

CodePoint(c) == CHOOSE i \in 1..Len(Alphabet) : Alphabet[i] = c

\* Python's < on two texts
RECURSIVE TextLess(_, _)
TextLess(x, y) ==
    CASE y = <<>> -> FALSE
      [] x = <<>> -> TRUE
      [] Head(x) # Head(y) -> CodePoint(Head(x)) < CodePoint(Head(y))
      [] OTHER -> TextLess(Tail(x), Tail(y))

\* sorted(names)
RECURSIVE Sorted(_)
Sorted(names) ==
    IF names = {} THEN <<>>
    ELSE LET least == CHOOSE n \in names : \A o \in names \ {n} : TextLess(n, o)
         IN  <<least>> \o Sorted(names \ {least})

RECURSIVE Backwards(_)
Backwards(names) == IF names = <<>> THEN <<>> ELSE Append(Backwards(Tail(names)), Head(names))

\* a list of the tables with the greatest name first
ListTablesDescending(m) == Backwards(Sorted(DOMAIN m))

\* core.list_tables
ListTables(m) == Sorted(DOMAIN m)

\* the max_id loop of core.insert_record (134-139)
RECURSIVE MaxIdLoop(_, _)
MaxIdLoop(max_id, rows) ==
    IF rows = <<>> THEN max_id
    ELSE IF IntOf(GetOr0(Head(rows), ID_COLUMN)).err # NoErr THEN MaxIdLoop(max_id, Tail(rows))
    ELSE IF IntOf(GetOr0(Head(rows), ID_COLUMN)).val.i > max_id
         THEN MaxIdLoop(IntOf(GetOr0(Head(rows), ID_COLUMN)).val.i, Tail(rows))
         ELSE MaxIdLoop(max_id, Tail(rows))

\* an ID taken from the number of rows
NewIdByCount(rows) == Len(rows) + 1

\* an ID that is the maximum itself
NewIdNoStep(rows) == MaxIdLoop(0, rows)

\* core.insert_record 141: the ID of the new row
NewId(rows) == MaxIdLoop(0, rows) + 1

UserCols(cols) == SelectSeq(cols, LAMBDA c : c.name # ID_COLUMN)

\* an insert that pads or cuts the values to the columns instead of failing
InsertRecordPadding(m, table_name, values, table_data) ==
    LET cols == SchemaColumns(m, table_name).val
        user_cols == UserCols(cols)
        new_id == NewId(table_data)
        record == [n \in {user_cols[i].name : i \in 1..Len(user_cols)} \cup {ID_COLUMN} |->
                     IF n = ID_COLUMN THEN PyInt(new_id)
                     ELSE IF LastIndex(user_cols, n) <= Len(values)
                          THEN values[LastIndex(user_cols, n)] ELSE PyNone]
    IN  IF SchemaColumns(m, table_name).err # NoErr
        THEN [err |-> KeyError, rows |-> table_data, new_id |-> 0]
        ELSE [err |-> NoErr, rows |-> Append(table_data, record), new_id |-> new_id]

\* core.insert_record: [err, rows, new_id]
InsertRecord(m, table_name, values, table_data) ==
    LET cols == SchemaColumns(m, table_name).val
        schema == SchemaMap(cols)
        user_cols == UserCols(cols)
        coerced == [i \in 1..Len(user_cols) |-> CoerceValue(schema[user_cols[i].name], values[i])]
        new_id == NewId(table_data)
        record == [n \in {user_cols[i].name : i \in 1..Len(user_cols)} \cup {ID_COLUMN} |->
                     IF n = ID_COLUMN THEN PyInt(new_id)
                     ELSE coerced[LastIndex(user_cols, n)].val]
    IN  CASE SchemaColumns(m, table_name).err # NoErr ->
               [err |-> KeyError, rows |-> table_data, new_id |-> 0]
          [] Len(values) # Len(user_cols) ->
               [err |-> InvalidValue, rows |-> table_data, new_id |-> 0]
          [] \E i \in 1..Len(user_cols) : coerced[i].err # NoErr ->
               [err |-> InvalidValue, rows |-> table_data, new_id |-> 0]
          [] OTHER ->
               [err |-> NoErr, rows |-> Append(table_data, record), new_id |-> new_id]

\* a where_clause whose value is compared as the parser gave it
WhereValueRaw(schema, where_clause) ==
    CASE Len(where_clause) # 1 -> Raise(InvalidValue)
      [] where_clause[1].col \notin DOMAIN schema -> Raise(KeyError)
      [] OTHER -> Ok(where_clause[1].val)

\* where_clause checks shared by select, update and delete (core.py 162-169,
\* 189-195, 226-232): the coerced value, or the exception
WhereValue(schema, where_clause) ==
    CASE Len(where_clause) # 1 -> Raise(InvalidValue)
      [] where_clause[1].col \notin DOMAIN schema -> Raise(KeyError)
      [] OTHER -> CoerceValue(schema[where_clause[1].col], where_clause[1].val)

\* r.get(col_name) == val
Matches(row, col, val) == PyEq(Get(row, col), val)

RECURSIVE Reverse(_)
Reverse(rows) == IF rows = <<>> THEN <<>> ELSE Append(Reverse(Tail(rows)), Head(rows))

\* a select that returns the newest rows first
SelectRecordsNewestFirst(m, table_name, table_data, where_clause) ==
    LET schema == SchemaMap(SchemaColumns(m, table_name).val)
        w == WhereValue(schema, where_clause)
    IN  CASE SchemaColumns(m, table_name).err # NoErr -> [err |-> KeyError, rows |-> <<>>]
          [] where_clause = <<>> -> [err |-> NoErr, rows |-> Reverse(table_data)]
          [] w.err # NoErr -> [err |-> w.err, rows |-> <<>>]
          [] OTHER ->
               [err |-> NoErr,
                rows |-> Reverse(SelectSeq(table_data, LAMBDA r : Matches(r, where_clause[1].col, w.val)))]

\* core.select_records: [err, rows]; an empty or missing where_clause selects all
SelectRecords(m, table_name, table_data, where_clause) ==
    LET schema == SchemaMap(SchemaColumns(m, table_name).val)
        w == WhereValue(schema, where_clause)
    IN  CASE SchemaColumns(m, table_name).err # NoErr -> [err |-> KeyError, rows |-> <<>>]
          [] where_clause = <<>> -> [err |-> NoErr, rows |-> table_data]
          [] w.err # NoErr -> [err |-> w.err, rows |-> <<>>]
          [] OTHER ->
               [err |-> NoErr,
                rows |-> SelectSeq(table_data, LAMBDA r : Matches(r, where_clause[1].col, w.val))]

\* a set_clause loop that skips the columns the schema does not declare
RECURSIVE CoerceSetSkipping(_, _)
CoerceSetSkipping(schema, set_clause) ==
    IF set_clause = <<>> THEN [err |-> NoErr, items |-> <<>>]
    ELSE IF Head(set_clause).col \notin DOMAIN schema THEN CoerceSetSkipping(schema, Tail(set_clause))
    ELSE IF CoerceValue(schema[Head(set_clause).col], Head(set_clause).val).err # NoErr
         THEN [err |-> InvalidValue, items |-> <<>>]
    ELSE LET rest == CoerceSetSkipping(schema, Tail(set_clause))
         IN  IF rest.err # NoErr THEN rest
             ELSE [err |-> NoErr,
                   items |-> <<[col |-> Head(set_clause).col,
                                val |-> CoerceValue(schema[Head(set_clause).col], Head(set_clause).val).val]>>
                             \o rest.items]

\* a set_clause loop that takes a column the schema does not declare as it is
RECURSIVE CoerceSetKeeping(_, _)
CoerceSetKeeping(schema, set_clause) ==
    IF set_clause = <<>> THEN [err |-> NoErr, items |-> <<>>]
    ELSE LET rest == CoerceSetKeeping(schema, Tail(set_clause))
             item == Head(set_clause)
         IN  IF item.col \in DOMAIN schema /\ CoerceValue(schema[item.col], item.val).err # NoErr
             THEN [err |-> InvalidValue, items |-> <<>>]
             ELSE IF rest.err # NoErr THEN rest
             ELSE [err |-> NoErr,
                   items |-> <<IF item.col \in DOMAIN schema
                               THEN Item(item.col, CoerceValue(schema[item.col], item.val).val)
                               ELSE item>> \o rest.items]

\* the set_clause loop of core.update_records (197-201): the first item that
\* names an unknown column or does not coerce raises
RECURSIVE CoerceSet(_, _)
CoerceSet(schema, set_clause) ==
    IF set_clause = <<>> THEN [err |-> NoErr, items |-> <<>>]
    ELSE IF Head(set_clause).col \notin DOMAIN schema THEN [err |-> KeyError, items |-> <<>>]
    ELSE IF CoerceValue(schema[Head(set_clause).col], Head(set_clause).val).err # NoErr
         THEN [err |-> InvalidValue, items |-> <<>>]
    ELSE LET rest == CoerceSet(schema, Tail(set_clause))
         IN  IF rest.err # NoErr THEN rest
             ELSE [err |-> NoErr,
                   items |-> <<Item(Head(set_clause).col,
                                    CoerceValue(schema[Head(set_clause).col], Head(set_clause).val).val)>>
                             \o rest.items]

\* row.update(coerced_set)
RowUpdate(row, items) ==
    [n \in DOMAIN row \cup Keys(items) |->
        IF n \in Keys(items) THEN (items[CHOOSE i \in 1..Len(items) : items[i].col = n]).val
        ELSE row[n]]

\* int(row.get(ID_COLUMN)) appended under try/except: nothing on a failure
IdOf(row) ==
    IF IntOf(Get(row, ID_COLUMN)).err = NoErr THEN <<IntOf(Get(row, ID_COLUMN)).val.i>> ELSE <<>>

\* an update loop that takes every row for a match
RECURSIVE UpdateLoopEveryRow(_, _, _, _)
UpdateLoopEveryRow(table_data, w_col, w_val, items) ==
    IF table_data = <<>> THEN [rows |-> <<>>, ids |-> <<>>]
    ELSE LET rest == UpdateLoopEveryRow(Tail(table_data), w_col, w_val, items)
             row == Head(table_data)
         IN  [rows |-> <<RowUpdate(row, items)>> \o rest.rows,
              ids |-> IdOf(RowUpdate(row, items)) \o rest.ids]

\* the row loop of core.update_records (203-210): [rows, ids]
RECURSIVE UpdateLoop(_, _, _, _)
UpdateLoop(table_data, w_col, w_val, items) ==
    IF table_data = <<>> THEN [rows |-> <<>>, ids |-> <<>>]
    ELSE LET rest == UpdateLoop(Tail(table_data), w_col, w_val, items)
             row == Head(table_data)
         IN  IF Matches(row, w_col, w_val)
             THEN [rows |-> <<RowUpdate(row, items)>> \o rest.rows,
                   ids |-> IdOf(RowUpdate(row, items)) \o rest.ids]
             ELSE [rows |-> <<row>> \o rest.rows, ids |-> rest.ids]

\* an update without the checks of the empty set_clause and of ID
UpdateRecordsUnguarded(m, table_name, table_data, set_clause, where_clause) ==
    LET schema == SchemaMap(SchemaColumns(m, table_name).val)
        w == WhereValue(schema, where_clause)
        cs == CoerceSet(schema, set_clause)
        fail(e) == [err |-> e, rows |-> table_data, ids |-> <<>>]
        done == UpdateLoop(table_data, where_clause[1].col, w.val, cs.items)
    IN  CASE SchemaColumns(m, table_name).err # NoErr -> fail(KeyError)
          [] w.err # NoErr -> fail(w.err)
          [] cs.err # NoErr -> fail(cs.err)
          [] OTHER -> [err |-> NoErr, rows |-> done.rows, ids |-> done.ids]

\* core.update_records: [err, rows, ids]
UpdateRecords(m, table_name, table_data, set_clause, where_clause) ==
    LET schema == SchemaMap(SchemaColumns(m, table_name).val)
        w == WhereValue(schema, where_clause)
        cs == CoerceSet(schema, set_clause)
        fail(e) == [err |-> e, rows |-> table_data, ids |-> <<>>]
        done == UpdateLoop(table_data, where_clause[1].col, w.val, cs.items)
    IN  CASE SchemaColumns(m, table_name).err # NoErr -> fail(KeyError)
          [] set_clause = <<>> -> fail(InvalidValue)
          [] ID_COLUMN \in Keys(set_clause) -> fail(InvalidValue)
          [] w.err # NoErr -> fail(w.err)
          [] cs.err # NoErr -> fail(cs.err)
          [] OTHER -> [err |-> NoErr, rows |-> done.rows, ids |-> done.ids]

\* a delete loop that collects the IDs last row first
RECURSIVE DeleteLoopReversed(_, _, _)
DeleteLoopReversed(table_data, w_col, w_val) ==
    IF table_data = <<>> THEN [rows |-> <<>>, ids |-> <<>>]
    ELSE LET rest == DeleteLoopReversed(Tail(table_data), w_col, w_val)
             row == Head(table_data)
         IN  IF PyEq(Get(row, w_col), w_val)
             THEN [rows |-> rest.rows, ids |-> rest.ids \o (IF IntOf(Get(row, ID_COLUMN)).err = NoErr
                                                            THEN <<IntOf(Get(row, ID_COLUMN)).val.i>> ELSE <<>>)]
             ELSE [rows |-> <<row>> \o rest.rows, ids |-> rest.ids]

\* the row loop of core.delete_records (234-244): [rows, ids], rows the kept ones
RECURSIVE DeleteLoop(_, _, _)
DeleteLoop(table_data, w_col, w_val) ==
    IF table_data = <<>> THEN [rows |-> <<>>, ids |-> <<>>]
    ELSE LET rest == DeleteLoop(Tail(table_data), w_col, w_val)
             row == Head(table_data)
         IN  IF Matches(row, w_col, w_val)
             THEN [rows |-> rest.rows, ids |-> IdOf(row) \o rest.ids]
             ELSE [rows |-> <<row>> \o rest.rows, ids |-> rest.ids]

\* core.delete_records, the function under the confirmation wrapper: [err, rows, ids]
DeleteRecords(m, table_name, table_data, where_clause) ==
    LET schema == SchemaMap(SchemaColumns(m, table_name).val)
        w == WhereValue(schema, where_clause)
        fail(e) == [err |-> e, rows |-> table_data, ids |-> <<>>]
        done == DeleteLoop(table_data, where_clause[1].col, w.val)
    IN  CASE SchemaColumns(m, table_name).err # NoErr -> fail(KeyError)
          [] w.err # NoErr -> fail(w.err)
          [] OTHER -> [err |-> NoErr, rows |-> done.rows, ids |-> done.ids]

\* core.table_info: the columns summary and the row count
TableInfo(m, table_name, table_data) ==
    IF SchemaColumns(m, table_name).err # NoErr THEN [err |-> KeyError, columns |-> <<>>, count |-> 0]
    ELSE [err |-> NoErr,
          columns |-> [i \in 1..Len(m[table_name]) |->
                         m[table_name][i].name \o <<":">> \o m[table_name][i].type_name],
          count |-> Len(table_data)]

\* a confirmation that reads the answer as a bool literal
ConfirmedAsBool(answer) == Lower(Strip(answer)) \in TRUE_TOKENS

\* decorators.confirm_action: the answer lets the wrapped function run
Confirmed(answer) == Lower(Strip(answer)) \in YES_ANSWERS

(***************************************************************************)
(* The literals and the pairs of the token grammar (parser.py).  A token   *)
(* is a text as shlex.split gives it, its quotes removed.                  *)
(***************************************************************************)
T_true == <<"t", "r", "u", "e">>
T_false == <<"f", "a", "l", "s", "e">>

\* re.fullmatch(r"-?\d+", raw)
IsSignedDigits(raw) ==
    LET body == IF raw # <<>> /\ Head(raw) = "-" THEN Tail(raw) ELSE raw
    IN  body # <<>> /\ \A i \in 1..Len(body) : body[i] \in DigitChars

\* parser._parse_literal
ParseLiteral(raw) ==
    LET r == Strip(raw)
    IN  CASE Len(r) >= 2 /\ r[1] = "\"" /\ r[Len(r)] = "\"" -> PyStr(SubSeq(r, 2, Len(r) - 1))
          [] Lower(r) \in {T_true, T_false} -> PyBool(Lower(r) = T_true)
          [] IsSignedDigits(r) ->
                PyInt(IF Head(r) = "-" THEN 0 - DigitsValue(Tail(r)) ELSE DigitsValue(r))
          [] OTHER -> PyStr(r)

\* d[k] = v on a dict kept as its items in insertion order
DictSet(d, k, v) ==
    IF k \in Keys(d) THEN [i \in 1..Len(d) |-> IF d[i].col = k THEN Item(k, v) ELSE d[i]]
    ELSE Append(d, Item(k, v))

\* the loop over the pairs of parse_command (153-157, 194-198): [err, kv]
RECURSIVE ParsePairs(_, _)
ParsePairs(kv, pairs) ==
    IF pairs = <<>> THEN [err |-> NoErr, kv |-> kv]
    ELSE IF ~Contains(Head(pairs), "=") THEN [err |-> InvalidValue, kv |-> <<>>]
    ELSE ParsePairs(DictSet(kv, SplitHead(Head(pairs), "="), ParseLiteral(SplitTail(Head(pairs), "="))),
                    Tail(pairs))

(***************************************************************************)
(* The store (utils.py).  meta is the metadata document: table name ->     *)
(* column list.  files holds one row document per table file that exists;  *)
(* mtime is each file's modification time, read from clock, which every    *)
(* write advances.  A row document holds flat int, str and bool scalars    *)
(* under text keys, which json.dumps / json.loads give back unchanged.     *)
(***************************************************************************)
\* utils.load_table_data: [] when the file is missing
LoadTableData(f, table_name) == IF table_name \in DOMAIN f THEN f[table_name] ELSE <<>>

\* utils.save_table_data
SaveTableData(f, table_name, data) ==
    [n \in DOMAIN f \cup {table_name} |-> IF n = table_name THEN data ELSE f[n]]

\* a drop that leaves the rows file where it is
DeleteTableFileKeeping(f, table_name) == f

\* utils.delete_table_file
DeleteTableFile(f, table_name) == [n \in DOMAIN f \ {table_name} |-> f[n]]

\* os.path.getmtime(path) if path.exists() else 0.0
MTime(table_name) == IF table_name \in DOMAIN mtime THEN mtime[table_name] ELSE 0

\* what one command prints and returns
Out(verb, table_name, err) ==
    [verb |-> verb, table |-> table_name, err |-> err, cancelled |-> FALSE,
     new_id |-> 0, ids |-> <<>>, rows |-> <<>>, hit |-> FALSE,
     columns |-> <<>>, count |-> 0]

\* the rows file after a handler whose core call gave res: the save is
\* skipped when the call raised (engine.py 118-119, 130-137, 152-156)
AfterSave(f, table_name, res) ==
    IF res.err = NoErr THEN SaveTableData(f, table_name, res.rows) ELSE f

\* a handler that writes the empty rows file before core.create_table is called
AfterCreateEager(f, table_name, res) == SaveTableData(f, table_name, <<>>)

\* engine._handle_create_table 70-72: the empty rows file is written once
\* core.create_table has returned
AfterCreate(f, table_name, res) ==
    IF res.err = NoErr THEN SaveTableData(f, table_name, <<>>) ELSE f

Running == status = "running"

Written(table_name) ==
    /\ clock' = clock + 1
    /\ mtime' = [n \in DOMAIN mtime \cup {table_name} |->
                   IF n = table_name THEN clock + 1 ELSE mtime[n]]

\* engine._handle_create_table under handle_db_errors
HandleCreateTable(table_name, columns) ==
    LET res == CreateTable(meta, table_name, columns)
    IN  /\ Running
        /\ files' = AfterCreate(files, table_name, res)
        /\ IF res.err = NoErr
           THEN /\ meta' = res.val
                /\ Written(table_name)
                /\ issued' = [n \in DOMAIN issued \cup {table_name} |->
                                IF n = table_name THEN {} ELSE issued[n]]
           ELSE UNCHANGED <<meta, mtime, clock, issued>>
        /\ out' = Out("create_table", table_name, res.err)
        /\ UNCHANGED <<cache, status>>

\* engine._handle_list_tables
HandleListTables ==
    /\ Running
    /\ out' = [Out("list_tables", <<>>, NoErr) EXCEPT !.columns = ListTables(meta)]
    /\ UNCHANGED <<meta, files, mtime, clock, cache, status, issued>>

\* engine._handle_drop_table: the prompt of confirm_action comes first
HandleDropTable(table_name, answer) ==
    LET res == DropTable(meta, table_name)
    IN  /\ Running
        /\ IF ~Confirmed(answer)
           THEN /\ out' = [Out("drop_table", table_name, NoErr) EXCEPT !.cancelled = TRUE]
                /\ UNCHANGED <<meta, files, mtime, issued>>
           ELSE IF res.err # NoErr
           THEN /\ out' = Out("drop_table", table_name, res.err)
                /\ UNCHANGED <<meta, files, mtime, issued>>
           ELSE /\ meta' = res.val
                /\ files' = DeleteTableFile(files, table_name)
                /\ mtime' = [n \in DOMAIN mtime \ {table_name} |-> mtime[n]]
                /\ issued' = [n \in DOMAIN issued \ {table_name} |-> issued[n]]
                /\ out' = Out("drop_table", table_name, NoErr)
        /\ UNCHANGED <<clock, cache, status>>

\* the effects shared by the handlers that save the rows of one table
SaveOutcome(table_name, res) ==
    /\ files' = AfterSave(files, table_name, res)
    /\ IF res.err = NoErr THEN Written(table_name) ELSE UNCHANGED <<mtime, clock>>
    /\ UNCHANGED <<meta, cache, status>>

\* engine._handle_insert, sentence form (cmd.name = "insert")
HandleInsert(table_name, values) ==
    LET data == LoadTableData(files, table_name)
        res == InsertRecord(meta, table_name, values, data)
    IN  /\ Running
        /\ SaveOutcome(table_name, res)
        /\ issued' = IF res.err = NoErr
                     THEN [issued EXCEPT ![table_name] = @ \cup {res.new_id}] ELSE issued
        /\ out' = [Out("insert", table_name, res.err) EXCEPT !.new_id = res.new_id]

\* the values of the pairs in the order the pairs were written
KvValuesInPairOrder(user_cols, kv) == [i \in 1..Len(user_cols) |-> kv[i].val]

\* the values engine._handle_insert 108-114 takes from the pairs of the token form
KvValues(user_cols, kv) ==
    [i \in 1..Len(user_cols) |->
        (kv[CHOOSE j \in 1..Len(kv) : kv[j].col = user_cols[i].name]).val]

\* engine._handle_insert, token form (cmd.name = "insert_kv")
HandleInsertKv(table_name, kv) ==
    LET data == LoadTableData(files, table_name)
        user_cols == UserCols(meta[table_name])
        res == CASE table_name \notin DOMAIN meta ->
                      [err |-> KeyError, rows |-> data, new_id |-> 0]
                 [] \E i \in 1..Len(user_cols) : user_cols[i].name \notin Keys(kv) ->
                      [err |-> InvalidValue, rows |-> data, new_id |-> 0]
                 [] OTHER -> InsertRecord(meta, table_name, KvValues(user_cols, kv), data)
    IN  /\ Running
        /\ SaveOutcome(table_name, res)
        /\ issued' = IF res.err = NoErr
                     THEN [issued EXCEPT ![table_name] = @ \cup {res.new_id}] ELSE issued
        /\ out' = [Out("insert_kv", table_name, res.err) EXCEPT !.new_id = res.new_id]

\* engine._handle_update
HandleUpdate(table_name, set_clause, where_clause) ==
    LET data == LoadTableData(files, table_name)
        res == UpdateRecords(meta, table_name, data, set_clause, where_clause)
    IN  /\ Running
        /\ SaveOutcome(table_name, res)
        /\ out' = [Out("update", table_name, res.err) EXCEPT !.ids = res.ids]
        /\ UNCHANGED issued

\* a delete that validates the table and the predicate before it asks: the
\* error of an invalid command is reported whatever the answer would be
HandleDeleteValidatingFirst(table_name, where_clause, answer) ==
    LET data == LoadTableData(files, table_name)
        res == DeleteRecords(meta, table_name, data, where_clause)
    IN  /\ Running
        /\ IF res.err = NoErr /\ ~Confirmed(answer)
           THEN /\ out' = [Out("delete", table_name, NoErr) EXCEPT !.cancelled = TRUE]
                /\ UNCHANGED <<meta, files, mtime, clock, cache, status>>
           ELSE /\ SaveOutcome(table_name, res)
                /\ out' = [Out("delete", table_name, res.err) EXCEPT !.ids = res.ids]
        /\ UNCHANGED issued

\* engine._handle_delete: the prompt of confirm_action comes first
HandleDelete(table_name, where_clause, answer) ==
    LET data == LoadTableData(files, table_name)
        res == DeleteRecords(meta, table_name, data, where_clause)
    IN  /\ Running
        /\ IF ~Confirmed(answer)
           THEN /\ out' = [Out("delete", table_name, NoErr) EXCEPT !.cancelled = TRUE]
                /\ UNCHANGED <<meta, files, mtime, clock, cache, status>>
           ELSE /\ SaveOutcome(table_name, res)
                /\ out' = [Out("delete", table_name, res.err) EXCEPT !.ids = res.ids]
        /\ UNCHANGED issued

\* engine._handle_info
HandleInfo(table_name) ==
    LET res == TableInfo(meta, table_name, LoadTableData(files, table_name))
    IN  /\ Running
        /\ out' = [Out("info", table_name, res.err) EXCEPT !.columns = res.columns, !.count = res.count]
        /\ UNCHANGED <<meta, files, mtime, clock, cache, status, issued>>

\* a cache key without the modification time of the rows file
CacheKeyWithoutTime(table_name, where_clause) ==
    [table |-> table_name, where |-> where_clause, mtime |-> 0]

\* the key of the select cache (engine.py 227-230); str(cmd.where_clause)
\* tells any two clauses apart, so the clause itself stands for its text
CacheKey(table_name, where_clause) ==
    [table |-> table_name, where |-> where_clause, mtime |-> MTime(table_name)]

\* compute() of engine.run (232-235)
Compute(table_name, where_clause) ==
    SelectRecords(meta, table_name, LoadTableData(files, table_name), where_clause)

\* a cacher that never finds its key
CacheResultRecomputing(c, key, res) ==
    IF res.err # NoErr THEN [err |-> res.err, rows |-> <<>>, hit |-> FALSE, cache |-> c]
    ELSE [err |-> NoErr, rows |-> res.rows, hit |-> FALSE,
          cache |-> [k \in DOMAIN c \cup {key} |-> IF k = key THEN res.rows ELSE c[k]]]

\* decorators.create_cacher.cache_result: [err, rows, hit, cache]
CacheResult(c, key, res) ==
    IF key \in DOMAIN c THEN [err |-> NoErr, rows |-> c[key], hit |-> TRUE, cache |-> c]
    ELSE IF res.err # NoErr THEN [err |-> res.err, rows |-> <<>>, hit |-> FALSE, cache |-> c]
    ELSE [err |-> NoErr, rows |-> res.rows, hit |-> FALSE,
          cache |-> [k \in DOMAIN c \cup {key} |-> IF k = key THEN res.rows ELSE c[k]]]

\* the select branch of engine.run (226-244): no handler wraps it, so an
\* exception of compute() or of _columns_for_table leaves the loop
RunSelect(table_name, where_clause) ==
    LET got == CacheResult(cache, CacheKey(table_name, where_clause), Compute(table_name, where_clause))
        err == IF got.err # NoErr THEN got.err
               ELSE IF table_name \notin DOMAIN meta THEN KeyError ELSE NoErr
    IN  /\ Running
        /\ cache' = got.cache
        /\ status' = IF err # NoErr THEN "crashed" ELSE status
        /\ out' = [Out("select", table_name, err) EXCEPT
                      !.rows = IF err = NoErr THEN got.rows ELSE <<>>, !.hit = got.hit]
        /\ UNCHANGED <<meta, files, mtime, clock, issued>>

\* engine.run 191-193
RunHelp ==
    /\ Running
    /\ out' = Out("help", <<>>, NoErr)
    /\ UNCHANGED <<meta, files, mtime, clock, cache, status, issued>>

\* engine.run 195-196
RunExit ==
    /\ Running
    /\ status' = "exited"
    /\ out' = Out("exit", <<>>, NoErr)
    /\ UNCHANGED <<meta, files, mtime, clock, cache, issued>>

\* engine.run 183-189: a line parse_command rejects is reported and the loop
\* reads the next one
RunParseError ==
    /\ Running
    /\ out' = Out("parse_error", <<>>, InvalidValue)
    /\ UNCHANGED <<meta, files, mtime, clock, cache, status, issued>>

(***************************************************************************)
(* The commands the model draws from.                                      *)
(***************************************************************************)
N_t == <<"t">>
N_u == <<"u">>
N_1t == <<"1", "t">>
C_a == <<"a">>
C_b == <<"b">>
C_zz == <<"z", "z">>

Colon(name, type_name) == name \o <<":">> \o type_name

Cols_ab == <<Colon(C_a, T_int), Colon(C_b, T_bool)>>

TableNames == {N_t, N_u}

ColumnLists ==
    { Cols_ab,
      <<Colon(C_a, T_int), Colon(C_a, T_str)>>,
      <<Colon(C_a, T_int), Colon(ID_COLUMN, T_int)>>,
      <<C_a \o T_int>>,
      <<Colon(C_a, <<"f", "l", "o", "a", "t">>)>>,
      <<Colon(<<"1", "a">>, T_int)>> }

A_y == <<"y">>
A_yes == <<"y", "e", "s">>
A_YES == <<" ", "Y", "E", "S", " ">>
A_Da == <<"U+0414", "U+0430">>
A_n == <<"n">>
A_one == <<"1">>

Answers == {A_YES, A_Da, A_n, A_one}

ValueLists ==
    { <<PyInt(1), PyBool(TRUE)>>,
      <<PyStr(<<"2">>), PyStr(<<"n", "o">>)>>,
      <<PyBool(TRUE), PyBool(TRUE)>>,
      <<PyInt(1)>> }

KvLists ==
    { <<Item(C_b, PyBool(TRUE)), Item(C_a, PyInt(1))>>,
      <<Item(C_a, PyInt(1))>> }

WhereClauses ==
    { <<Item(ID_COLUMN, PyInt(1))>>,
      <<Item(C_b, PyStr(A_yes))>>,
      <<Item(C_a, PyStr(<<"x">>))>>,
      <<Item(C_zz, PyInt(1))>> }

SelectClauses ==
    { <<>>,
      <<Item(C_a, PyStr(<<"x">>))>>,
      <<Item(C_zz, PyInt(1))>> }

SetClauses ==
    { <<>>,
      <<Item(C_a, PyInt(2))>>,
      <<Item(C_zz, PyInt(1))>>,
      <<Item(C_a, PyStr(<<"x">>)), Item(C_zz, PyInt(1))>>,
      <<Item(C_zz, PyInt(1)), Item(ID_COLUMN, PyInt(5))>> }

RowValueLists ==
    { <<PyInt(1), PyBool(TRUE)>>,
      <<PyStr(<<"2">>), PyStr(<<"n", "o">>)>> }

RowWhereClauses ==
    { <<Item(ID_COLUMN, PyInt(1))>>,
      <<Item(ID_COLUMN, PyStr(<<"2">>))>>,
      <<Item(C_a, PyStr(<<"1">>))>>,
      <<Item(C_b, PyStr(A_yes))>> }

CacheClauses ==
    { <<>>,
      <<Item(ID_COLUMN, PyInt(1))>>,
      <<Item(C_b, PyStr(A_yes))>> }

NoFunction == [n \in {} |-> 0]

\* parser.Command: the verb and the fields a command carries; cmd holds the
\* command last read in the specifications that record it
Command(name, table, columns, values, set_clause, where_clause) ==
    [name |-> name, table |-> table, columns |-> columns, values |-> values,
     set_clause |-> set_clause, where_clause |-> where_clause]

Init ==
    /\ meta = NoFunction
    /\ files = NoFunction
    /\ mtime = NoFunction
    /\ clock = 0
    /\ cache = NoFunction
    /\ status = "running"
    /\ out = Out("start", <<>>, NoErr)
    /\ issued = NoFunction
    /\ seen = NoFunction
    /\ cmd = Command("", <<>>, <<>>, <<>>, <<>>, <<>>)
    /\ line = <<>>

\* the bounds of a run: the writes so far and the cached selects
CanWrite == clock < MaxWrites
CanCache(table_name, where_clause) ==
    \/ CacheKey(table_name, where_clause) \in DOMAIN cache
    \/ Cardinality(DOMAIN cache) < MaxCache

(***************************************************************************)
(* Spec: the interactive loop with every verb, on one table name (unknown  *)
(* until it is created and again once it is dropped).                      *)
(***************************************************************************)
Next ==
    \/ \E n \in {N_t, N_1t}, c \in ColumnLists :
          CanWrite /\ HandleCreateTable(n, c) /\ UNCHANGED <<seen, cmd, line>>
    \/ HandleListTables /\ UNCHANGED <<seen, cmd, line>>
    \/ \E n \in {N_t}, a \in Answers : HandleDropTable(n, a) /\ UNCHANGED <<seen, cmd, line>>
    \/ \E n \in {N_t}, v \in ValueLists : CanWrite /\ HandleInsert(n, v) /\ UNCHANGED <<seen, cmd, line>>
    \/ \E n \in {N_t}, kv \in KvLists : CanWrite /\ HandleInsertKv(n, kv) /\ UNCHANGED <<seen, cmd, line>>
    \/ \E n \in {N_t}, s \in SetClauses, w \in WhereClauses :
          CanWrite /\ HandleUpdate(n, s, w) /\ UNCHANGED <<seen, cmd, line>>
    \/ \E n \in {N_t}, w \in WhereClauses, a \in Answers :
          CanWrite /\ HandleDelete(n, w, a) /\ UNCHANGED <<seen, cmd, line>>
    \/ \E n \in {N_t} : HandleInfo(n) /\ UNCHANGED <<seen, cmd, line>>
    \/ \E n \in {N_t}, w \in SelectClauses :
          CanCache(n, w) /\ RunSelect(n, w) /\ UNCHANGED <<seen, cmd, line>>
    \/ RunHelp /\ UNCHANGED <<seen, cmd, line>>
    \/ RunExit /\ UNCHANGED <<seen, cmd, line>>

Spec == Init /\ [][Next]_vars

(***************************************************************************)
(* SpecRows: two tables of columns a:int, b:bool, their rows inserted,      *)
(* updated and deleted over a longer run.                                  *)
(***************************************************************************)
CanWriteRows == clock < MaxRowWrites

NextRows ==
    \/ \E n \in TableNames : CanWriteRows /\ HandleCreateTable(n, Cols_ab) /\ UNCHANGED <<seen, cmd, line>>
    \/ \E n \in TableNames, a \in {A_y, A_n} : HandleDropTable(n, a) /\ UNCHANGED <<seen, cmd, line>>
    \/ \E n \in TableNames, v \in RowValueLists :
          CanWriteRows /\ HandleInsert(n, v) /\ UNCHANGED <<seen, cmd, line>>
    \/ \E n \in TableNames :
          CanWriteRows /\ HandleUpdate(n, <<Item(C_a, PyInt(1))>>, <<Item(ID_COLUMN, PyInt(2))>>)
             /\ UNCHANGED <<seen, cmd, line>>
    \/ \E n \in TableNames, w \in RowWhereClauses, a \in {A_y, A_n} :
          CanWriteRows /\ HandleDelete(n, w, a) /\ UNCHANGED <<seen, cmd, line>>

SpecRows == Init /\ [][NextRows]_vars

(***************************************************************************)
(* SpecCache: selects on one table between the commands that write it.     *)
(* seen records, for each select since the last command that wrote         *)
(* metadata or rows, the rows it returned.                                 *)
(***************************************************************************)
CanWriteCache == clock < MaxCacheWrites
CanCacheMore(table_name, where_clause) ==
    \/ CacheKey(table_name, where_clause) \in DOMAIN cache
    \/ Cardinality(DOMAIN cache) < MaxCacheEntries

Forget ==
    /\ seen' = IF <<meta', files', mtime'>> = <<meta, files, mtime>> THEN seen ELSE NoFunction
    /\ UNCHANGED <<cmd, line>>

Remember(table_name, where_clause) ==
    /\ seen' = IF out'.err # NoErr THEN seen
               ELSE [k \in DOMAIN seen \cup {<<table_name, where_clause>>} |->
                        IF k = <<table_name, where_clause>> THEN out'.rows ELSE seen[k]]
    /\ UNCHANGED <<cmd, line>>

Cols_a_bstr == <<Colon(C_a, T_int), Colon(C_b, T_str)>>

NextCache ==
    \/ \E c \in {Cols_ab, Cols_a_bstr} : CanWriteCache /\ HandleCreateTable(N_t, c) /\ Forget
    \/ \E v \in RowValueLists \cup {<<PyInt(1)>>} : CanWriteCache /\ HandleInsert(N_t, v) /\ Forget
    \/ \E w \in RowWhereClauses, a \in {A_y, A_n} : CanWriteCache /\ HandleDelete(N_t, w, a) /\ Forget
    \/ CanWriteCache /\ HandleUpdate(N_t, <<Item(C_b, PyStr(A_yes))>>, <<Item(ID_COLUMN, PyInt(2))>>)
          /\ Forget
    \/ \E a \in {A_y, A_n} : HandleDropTable(N_t, a) /\ Forget
    \/ HandleInfo(N_t) /\ Forget
    \/ \E w \in CacheClauses : CanCacheMore(N_t, w) /\ RunSelect(N_t, w) /\ Remember(N_t, w)

SpecCache == Init /\ [][NextCache]_vars

(***************************************************************************)
(* SpecInsert: both forms of insert on one table of columns a:int, b:bool, *)
(* with too few, enough and too many values, every value one that its      *)
(* column accepts.  cmd records the command of each step.                  *)
(***************************************************************************)
CanWriteInsert == clock < MaxInsertWrites

ArityValueLists ==
    { <<>>,
      <<PyInt(1)>>,
      <<PyInt(1), PyBool(TRUE)>>,
      <<PyStr(<<"2">>), PyStr(<<"n", "o">>)>>,
      <<PyInt(1), PyBool(TRUE), PyInt(3)>> }

P_a1 == <<"a", "=", "1">>
P_a2 == <<"a", "=", "2">>
P_btrue == <<"b", "=", "T", "r", "u", "e">>
P_bno == <<"b", "=", "n", "o">>
P_zz5 == <<"z", "z", "=", "5">>

PairLists ==
    { <<P_a1, P_btrue>>,
      <<P_bno, P_a2>>,
      <<P_a1, P_bno, P_zz5>>,
      <<P_a1, P_a2, P_btrue>>,
      <<P_a1>>,
      <<P_btrue, P_zz5>>,
      <<P_a1, <<"b">>>> }

Issued(c) == cmd' = c /\ UNCHANGED <<seen, line>>

NextInsert ==
    \/ /\ CanWriteInsert
       /\ HandleCreateTable(N_t, Cols_ab)
       /\ Issued(Command("create_table", N_t, Cols_ab, <<>>, <<>>, <<>>))
    \/ \E v \in ArityValueLists :
          /\ CanWriteInsert
          /\ HandleInsert(N_t, v)
          /\ Issued(Command("insert", N_t, <<>>, v, <<>>, <<>>))
    \/ \E pairs \in PairLists :
          /\ CanWriteInsert
          /\ ParsePairs(<<>>, pairs).err = NoErr
          /\ HandleInsertKv(N_t, ParsePairs(<<>>, pairs).kv)
          /\ Issued(Command("insert_kv", N_t, <<>>, <<>>, ParsePairs(<<>>, pairs).kv, <<>>))
    \/ \E pairs \in PairLists :
          /\ ParsePairs(<<>>, pairs).err # NoErr
          /\ RunParseError
          /\ Issued(Command("", <<>>, <<>>, <<>>, <<>>, <<>>))
    \/ \E w \in {<<Item(ID_COLUMN, PyInt(1))>>, <<Item(C_b, PyStr(A_yes))>>} :
          /\ CanWriteInsert
          /\ HandleDelete(N_t, w, A_y)
          /\ Issued(Command("delete", N_t, <<>>, <<>>, <<>>, w))

SpecInsert == Init /\ [][NextInsert]_vars

(***************************************************************************)
(* SpecUpdate: updates of the token form on two tables of columns a:int,   *)
(* b:bool, one of them possibly absent, with set-clauses that are empty,   *)
(* name ID or a declared column, and where-clauses of every kind.          *)
(***************************************************************************)
CanWriteUpdate == clock < MaxUpdateWrites

P_id5 == <<"I", "D", "=", "5">>
P_ax == <<"a", "=", "x">>

SetPairLists ==
    { <<>>,
      <<P_id5>>,
      <<P_a2, P_id5>>,
      <<P_a2>>,
      <<P_bno>>,
      <<P_ax>>,
      <<C_a>> }

UpdateWhereClauses ==
    { <<Item(ID_COLUMN, PyInt(1))>>,
      <<Item(C_b, PyStr(A_yes))>>,
      <<Item(C_a, PyStr(<<"x">>))>>,
      <<Item(C_zz, PyInt(1))>> }

NextUpdate ==
    \/ \E n \in TableNames :
          /\ CanWriteUpdate
          /\ HandleCreateTable(n, Cols_ab)
          /\ Issued(Command("create_table", n, Cols_ab, <<>>, <<>>, <<>>))
    \/ \E v \in RowValueLists :
          /\ CanWriteUpdate
          /\ HandleInsert(N_t, v)
          /\ Issued(Command("insert", N_t, <<>>, v, <<>>, <<>>))
    \/ \E n \in TableNames, pairs \in SetPairLists, w \in UpdateWhereClauses :
          /\ CanWriteUpdate
          /\ ParsePairs(<<>>, pairs).err = NoErr
          /\ HandleUpdate(n, ParsePairs(<<>>, pairs).kv, w)
          /\ Issued(Command("update", n, <<>>, <<>>, ParsePairs(<<>>, pairs).kv, w))
    \/ \E pairs \in SetPairLists :
          /\ ParsePairs(<<>>, pairs).err # NoErr
          /\ RunParseError
          /\ Issued(Command("", <<>>, <<>>, <<>>, <<>>, <<>>))

SpecUpdate == Init /\ [][NextUpdate]_vars

(***************************************************************************)
(* SpecSelect: selects on one table of columns a:int, b:bool, without a    *)
(* predicate and with predicates whose value is a text: the digits of an   *)
(* int, a truthy token in several spellings, and texts no coercion takes.  *)
(***************************************************************************)
CanWriteSelect == clock < MaxSelectWrites
CanCacheSelect(table_name, where_clause) ==
    \/ CacheKey(table_name, where_clause) \in DOMAIN cache
    \/ Cardinality(DOMAIN cache) < MaxSelectEntries

SelectValueLists ==
    { <<PyInt(1), PyBool(TRUE)>>,
      <<PyInt(1), PyStr(A_n)>>,
      <<PyStr(<<"2">>), PyStr(A_Da)>> }

W_a1 == <<Item(C_a, PyStr(<<"1">>))>>
W_byes == <<Item(C_b, PyStr(A_yes))>>
W_bYES == <<Item(C_b, PyStr(A_YES))>>
W_bDa == <<Item(C_b, PyStr(A_Da))>>
W_bmaybe == <<Item(C_b, PyStr(<<"m", "a", "y", "b", "e">>))>>
W_ax == <<Item(C_a, PyStr(<<"x">>))>>

PredicateClauses == {<<>>, W_a1, W_byes, W_bYES, W_bDa, W_bmaybe, W_ax}

NextSelect ==
    \/ /\ CanWriteSelect
       /\ HandleCreateTable(N_t, Cols_ab)
       /\ Issued(Command("create_table", N_t, Cols_ab, <<>>, <<>>, <<>>))
    \/ \E v \in SelectValueLists :
          /\ CanWriteSelect
          /\ HandleInsert(N_t, v)
          /\ Issued(Command("insert", N_t, <<>>, v, <<>>, <<>>))
    \/ /\ CanWriteSelect
       /\ HandleDelete(N_t, <<Item(ID_COLUMN, PyInt(1))>>, A_y)
       /\ Issued(Command("delete", N_t, <<>>, <<>>, <<>>, <<Item(ID_COLUMN, PyInt(1))>>))
    \/ \E w \in PredicateClauses :
          /\ CanCacheSelect(N_t, w)
          /\ RunSelect(N_t, w)
          /\ Issued(Command("select", N_t, <<>>, <<>>, <<>>, w))

SpecSelect == Init /\ [][NextSelect]_vars

(***************************************************************************)
(* SpecTables: tables created, listed and dropped under several names and  *)
(* column lists, rows inserted into one of them.                           *)
(***************************************************************************)
CanWriteTables == clock < MaxTableWrites

N_B == <<"B">>
N_ta == <<"t", "a">>

C_name == <<"n", "a", "m", "e">>
C_age == <<"a", "g", "e">>

Cols_name_age == <<Colon(C_name, T_str), Colon(C_age, T_int)>>

ListedNames == {N_t, N_B, N_ta}

TableColumnLists == {Cols_ab, Cols_name_age, <<C_a \o T_int>>}

NextTables ==
    \/ \E n \in ListedNames \cup {N_1t}, c \in TableColumnLists :
          /\ CanWriteTables
          /\ HandleCreateTable(n, c)
          /\ Issued(Command("create_table", n, c, <<>>, <<>>, <<>>))
    \/ \E n \in ListedNames, a \in {A_y, A_n} :
          /\ HandleDropTable(n, a)
          /\ Issued(Command("drop_table", n, <<>>, <<>>, <<>>, <<>>))
    \/ /\ CanWriteTables
       /\ HandleInsert(N_t, <<PyStr(<<"1">>), PyStr(<<"0">>)>>)
       /\ Issued(Command("insert", N_t, <<>>, <<PyStr(<<"1">>), PyStr(<<"0">>)>>, <<>>, <<>>))
    \/ /\ HandleListTables
       /\ Issued(Command("list_tables", <<>>, <<>>, <<>>, <<>>, <<>>))

SpecTables == Init /\ [][NextTables]_vars

(***************************************************************************)
(* The parser (parser.py).  A line is a text; the regular expressions of   *)
(* the sentence grammar are matched left to right as re.match does, and    *)
(* the rest of the line is cut into tokens at its blanks.                  *)
(***************************************************************************)
W_insert == <<"i", "n", "s", "e", "r", "t">>
W_into == <<"i", "n", "t", "o">>
W_values == <<"v", "a", "l", "u", "e", "s">>
W_select == <<"s", "e", "l", "e", "c", "t">>
W_from == <<"f", "r", "o", "m">>
W_where == <<"w", "h", "e", "r", "e">>
W_delete == <<"d", "e", "l", "e", "t", "e">>
W_update == <<"u", "p", "d", "a", "t", "e">>
W_set == <<"s", "e", "t">>
W_exit == <<"e", "x", "i", "t">>
W_help == <<"h", "e", "l", "p">>
W_list_tables == <<"l", "i", "s", "t", "_", "t", "a", "b", "l", "e", "s">>
W_info == <<"i", "n", "f", "o">>
W_create_table == <<"c", "r", "e", "a", "t", "e", "_", "t", "a", "b", "l", "e">>
W_drop_table == <<"d", "r", "o", "p", "_", "t", "a", "b", "l", "e">>

\* the characters \w matches
WordChars == LowerLetters \cup UpperLetters \cup DigitChars \cup {"_"}

\* the length of the longest run of \w characters s starts with
RECURSIVE WordRun(_)
WordRun(s) == IF s # <<>> /\ Head(s) \in WordChars THEN 1 + WordRun(Tail(s)) ELSE 0

\* the length of the longest run of blanks s starts with
RECURSIVE BlankRun(_)
BlankRun(s) == IF s # <<>> /\ Head(s) \in Blanks THEN 1 + BlankRun(Tail(s)) ELSE 0

\* the length of the first token of a text that starts with one
RECURSIVE TokenRun(_)
TokenRun(s) == IF s # <<>> /\ Head(s) \notin Blanks THEN 1 + TokenRun(Tail(s)) ELSE 0

Take(s, k) == SubSeq(s, 1, k)

Drop(s, k) == SubSeq(s, k + 1, Len(s))

\* shlex.split(line) of a line with no quote and no backslash, which is
\* line.split(): the runs of characters between the blanks
RECURSIVE ShlexSplit(_)
ShlexSplit(s) ==
    IF LStrip(s) = <<>> THEN <<>>
    ELSE <<Take(LStrip(s), TokenRun(LStrip(s)))>> \o ShlexSplit(Drop(LStrip(s), TokenRun(LStrip(s))))

\* " ".join(tokens)
RECURSIVE Join(_)
Join(tokens) ==
    IF tokens = <<>> THEN <<>>
    ELSE IF Len(tokens) = 1 THEN tokens[1]
    ELSE tokens[1] \o <<" ">> \o Join(Tail(tokens))

\* a position of a match in progress: the text still to be matched, or no match
NoMatch == [ok |-> FALSE, rest |-> <<>>]

At(s) == [ok |-> TRUE, rest |-> s]

\* a keyword of a pattern, in letters of either case (re.IGNORECASE)
Keyword(m, word) ==
    IF m.ok /\ Len(m.rest) >= Len(word) /\ Lower(Take(m.rest, Len(word))) = word
    THEN At(Drop(m.rest, Len(word))) ELSE NoMatch

\* \s+
Spaces(m) == IF m.ok /\ BlankRun(m.rest) > 0 THEN At(LStrip(m.rest)) ELSE NoMatch

\* \w+, the group being Take(m.rest, WordRun(m.rest))
Word(m) == IF m.ok /\ WordRun(m.rest) > 0 THEN At(Drop(m.rest, WordRun(m.rest))) ELSE NoMatch

\* _SQL_INSERT_RE.match(l) on a stripped line: [ok, table, inside]
SQL_INSERT_RE(l) ==
    LET into == Spaces(Keyword(Spaces(Keyword(At(l), W_insert)), W_into))
        values == Keyword(Spaces(Word(into)), W_values)
        tail == LStrip(values.rest)
    IN  [ok |-> values.ok /\ Len(tail) >= 2 /\ tail[1] = "(" /\ tail[Len(tail)] = ")",
         table |-> Take(into.rest, WordRun(into.rest)),
         inside |-> SubSeq(tail, 2, Len(tail) - 1)]

\* _SQL_SELECT_RE.match(l): [ok, table, where], where empty for no group
SQL_SELECT_RE(l) ==
    LET from == Spaces(Keyword(Spaces(Keyword(At(l), W_select)), W_from))
        table == Word(from)
        where == Spaces(Keyword(Spaces(table), W_where))
    IN  [ok |-> table.ok /\ (table.rest = <<>> \/ (where.ok /\ where.rest # <<>>)),
         table |-> Take(from.rest, WordRun(from.rest)),
         where |-> IF table.rest = <<>> THEN <<>> ELSE where.rest]

\* _SQL_DELETE_RE.match(l): [ok, table, where]
SQL_DELETE_RE(l) ==
    LET from == Spaces(Keyword(Spaces(Keyword(At(l), W_delete)), W_from))
        where == Spaces(Keyword(Spaces(Word(from)), W_where))
    IN  [ok |-> where.ok /\ where.rest # <<>>,
         table |-> Take(from.rest, WordRun(from.rest)),
         where |-> where.rest]

\* _SQL_UPDATE_RE.match(l): [ok, table, set, where].  After "set" the first
\* \s+ takes as many blanks as a match allows and the lazy set group ends at
\* the first place where blanks, "where", blanks and a text follow.
SQL_UPDATE_RE(l) ==
    LET update == Spaces(Keyword(At(l), W_update))
        set == Keyword(Spaces(Word(update)), W_set)
        x == set.rest
        after(j) == Spaces(Keyword(Spaces(At(Drop(x, j))), W_where))
        ends == {j \in 2..Len(x) : after(j).ok /\ after(j).rest # <<>>}
        starts == {i \in 1..BlankRun(x) : \E j \in ends : i < j}
        i == CHOOSE a \in starts : \A b \in starts : b <= a
        j == CHOOSE a \in ends : i < a /\ \A b \in ends : i < b => a <= b
    IN  IF set.ok /\ starts # {}
        THEN [ok |-> TRUE, table |-> Take(update.rest, WordRun(update.rest)),
              set |-> SubSeq(x, i + 1, j), where |-> after(j).rest]
        ELSE [ok |-> FALSE, table |-> <<>>, set |-> <<>>, where |-> <<>>]

\* _COND_RE.match(text) and _ASSIGN_RE.match(text): [ok, col, val]
COND_RE(text) ==
    LET eq == LStrip(Drop(text, WordRun(text)))
        val == LStrip(Tail(eq))
    IN  IF WordRun(text) > 0 /\ eq # <<>> /\ Head(eq) = "=" /\ val # <<>>
        THEN [ok |-> TRUE, col |-> Take(text, WordRun(text)), val |-> val]
        ELSE [ok |-> FALSE, col |-> <<>>, val |-> <<>>]

\* a condition parser that reads a text that is no condition as no predicate
ParseConditionLenient(text) ==
    LET m == COND_RE(Strip(text))
    IN  IF m.ok THEN [err |-> NoErr, clause |-> <<Item(m.col, ParseLiteral(m.val))>>]
        ELSE [err |-> NoErr, clause |-> <<>>]

\* parser._parse_condition: [err, clause]
ParseCondition(text) ==
    LET m == COND_RE(Strip(text))
    IN  IF m.ok THEN [err |-> NoErr, clause |-> <<Item(m.col, ParseLiteral(m.val))>>]
        ELSE [err |-> InvalidValue, clause |-> <<>>]

\* the fields csv.reader gives for a text with no quote: the texts between
\* the commas, the spaces after a comma skipped (skipinitialspace)
RECURSIVE SkipSpaces(_)
SkipSpaces(s) == IF s # <<>> /\ Head(s) = " " THEN SkipSpaces(Tail(s)) ELSE s

RECURSIVE CsvRow(_)
CsvRow(s) ==
    IF ~Contains(s, ",") THEN <<SkipSpaces(s)>>
    ELSE <<SkipSpaces(SplitHead(s, ","))>> \o CsvRow(SplitTail(s, ","))

\* parser._parse_csv_values: the literals of the fields that are not blank
ParseCsvValues(inside) ==
    LET row == IF inside = <<>> THEN <<>> ELSE CsvRow(inside)
        filled(x) == Strip(x) # <<>>
        kept == SelectSeq(row, filled)
    IN  [i \in 1..Len(kept) |-> ParseLiteral(kept[i])]

\* the loop of parser._parse_assignments over the parts: [err, kv]
RECURSIVE AssignmentsLoop(_, _)
AssignmentsLoop(kv, parts) ==
    IF parts = <<>> THEN [err |-> NoErr, kv |-> kv]
    ELSE IF Head(parts).t # "str" THEN [err |-> InvalidValue, kv |-> <<>>]
    ELSE IF ~COND_RE(Strip(Head(parts).s)).ok THEN [err |-> InvalidValue, kv |-> <<>>]
    ELSE AssignmentsLoop(DictSet(kv, COND_RE(Strip(Head(parts).s)).col,
                                 ParseLiteral(COND_RE(Strip(Head(parts).s)).val)),
                         Tail(parts))

\* parser._parse_assignments
ParseAssignments(text) == AssignmentsLoop(<<>>, ParseCsvValues(text))

\* what parse_command gives: the Command it returns, or the exception
Parsed(c) == [err |-> NoErr, cmd |-> c]

NoCommand == Command("", <<>>, <<>>, <<>>, <<>>, <<>>)

Rejected == [err |-> InvalidValue, cmd |-> NoCommand]

\* the index of the first token that is "where" in letters of either case
WhereIndex(tokens) ==
    CHOOSE k \in 1..Len(tokens) :
        Lower(tokens[k]) = W_where /\ \A h \in 1..(k - 1) : Lower(tokens[h]) # W_where

\* parser.parse_command 123-213: the token grammar
ParseTokens(tokens) ==
    LET verb == Lower(tokens[1])
        n == Len(tokens)
        kv == ParsePairs(<<>>, SubSeq(tokens, 3, n))
        idx == WhereIndex(tokens)
        set_clause == ParsePairs(<<>>, SubSeq(tokens, 4, idx - 1))
        update_where == ParseCondition(Join(SubSeq(tokens, idx + 1, n)))
        cond == ParseCondition(Join(SubSeq(tokens, 4, n)))
    IN  CASE verb = W_exit -> Parsed(Command("exit", <<>>, <<>>, <<>>, <<>>, <<>>))
          [] verb = W_help -> Parsed(Command("help", <<>>, <<>>, <<>>, <<>>, <<>>))
          [] verb = W_list_tables -> Parsed(Command("list_tables", <<>>, <<>>, <<>>, <<>>, <<>>))
          [] verb = W_info ->
                IF n # 2 THEN Rejected
                ELSE Parsed(Command("info", tokens[2], <<>>, <<>>, <<>>, <<>>))
          [] verb = W_create_table ->
                IF n < 3 THEN Rejected
                ELSE Parsed(Command("create_table", tokens[2], SubSeq(tokens, 3, n), <<>>, <<>>, <<>>))
          [] verb = W_drop_table ->
                IF n # 2 THEN Rejected
                ELSE Parsed(Command("drop_table", tokens[2], <<>>, <<>>, <<>>, <<>>))
          [] verb = W_insert ->
                IF n < 3 THEN Rejected
                ELSE IF kv.err # NoErr THEN Rejected
                ELSE Parsed(Command("insert_kv", tokens[2], <<>>, <<>>, kv.kv, <<>>))
          [] verb = W_select ->
                IF n < 2 THEN Rejected
                ELSE IF n = 2 THEN Parsed(Command("select", tokens[2], <<>>, <<>>, <<>>, <<>>))
                ELSE IF Lower(tokens[3]) # W_where THEN Rejected
                ELSE IF cond.err # NoErr THEN Rejected
                ELSE Parsed(Command("select", tokens[2], <<>>, <<>>, <<>>, cond.clause))
          [] verb = W_update ->
                IF n < 4 \/ Lower(tokens[3]) # W_set THEN Rejected
                ELSE IF \A k \in 1..n : Lower(tokens[k]) # W_where THEN Rejected
                ELSE IF set_clause.err # NoErr THEN Rejected
                ELSE IF update_where.err # NoErr THEN Rejected
                ELSE Parsed(Command("update", tokens[2], <<>>, <<>>, set_clause.kv, update_where.clause))
          [] verb = W_delete ->
                IF n < 4 \/ Lower(tokens[3]) # W_where THEN Rejected
                ELSE IF cond.err # NoErr THEN Rejected
                ELSE Parsed(Command("delete", tokens[2], <<>>, <<>>, <<>>, cond.clause))
          [] OTHER -> Rejected

\* parser.parse_command: the sentence grammar first, then the token grammar
ParseCommand(text) ==
    LET l == Strip(text)
        ins == SQL_INSERT_RE(l)
        sel == SQL_SELECT_RE(l)
        del == SQL_DELETE_RE(l)
        upd == SQL_UPDATE_RE(l)
    IN  IF l = <<>> THEN Rejected
        ELSE IF ins.ok
        THEN Parsed(Command("insert", ins.table, <<>>, ParseCsvValues(ins.inside), <<>>, <<>>))
        ELSE IF sel.ok
        THEN IF sel.where = <<>> THEN Parsed(Command("select", sel.table, <<>>, <<>>, <<>>, <<>>))
             ELSE IF ParseCondition(sel.where).err # NoErr THEN Rejected
             ELSE Parsed(Command("select", sel.table, <<>>, <<>>, <<>>, ParseCondition(sel.where).clause))
        ELSE IF del.ok
        THEN IF ParseCondition(del.where).err # NoErr THEN Rejected
             ELSE Parsed(Command("delete", del.table, <<>>, <<>>, <<>>, ParseCondition(del.where).clause))
        ELSE IF upd.ok
        THEN IF ParseAssignments(upd.set).err # NoErr THEN Rejected
             ELSE IF ParseCondition(upd.where).err # NoErr THEN Rejected
             ELSE Parsed(Command("update", upd.table, <<>>, <<>>,
                                 ParseAssignments(upd.set).kv, ParseCondition(upd.where).clause))
        ELSE ParseTokens(ShlexSplit(l))

(***************************************************************************)
(* SpecParse: the loop of engine.run on lines as they are typed: each line *)
(* is parsed and, when parse_command returns, dispatched on cmd.name.      *)
(* line records the line read at each step and cmd the command parsed.     *)
(***************************************************************************)
L_exit == <<"e", "x", "i", "t">>
L_help == <<"h", "e", "l", "p">>
L_list_tables == <<"l", "i", "s", "t", "_", "t", "a", "b", "l", "e", "s">>
L_exit_now == <<"e", "x", "i", "t", " ", "n", "o", "w">>
L_help_me == <<"h", "e", "l", "p", " ", "m", "e">>
L_list_tables_x == <<"l", "i", "s", "t", "_", "t", "a", "b", "l", "e", "s", " ", "x">>
L_info == <<"i", "n", "f", "o">>
L_info_t == <<"I", "N", "F", "O", " ", "t">>
L_info_t_x == <<"i", "n", "f", "o", " ", "t", " ", "x">>
L_create_table == <<"c", "r", "e", "a", "t", "e", "_", "t", "a", "b", "l", "e">>
L_create_table_t == <<"c", "r", "e", "a", "t", "e", "_", "t", "a", "b", "l", "e", " ", "t">>
L_create_table_t_ab == <<"c", "r", "e", "a", "t", "e", "_", "t", "a", "b", "l", "e", " ", "t", " ", "a", ":", "i", "n", "t", " ", "b", ":", "b", "o", "o", "l">>
L_drop_table == <<"d", "r", "o", "p", "_", "t", "a", "b", "l", "e">>
L_drop_table_t == <<"d", "r", "o", "p", "_", "t", "a", "b", "l", "e", " ", "t">>
L_drop_table_t_x == <<"d", "r", "o", "p", "_", "t", "a", "b", "l", "e", " ", "t", " ", "x">>
L_insert_into_1_true == <<"i", "n", "s", "e", "r", "t", " ", "i", "n", "t", "o", " ", "t", " ", "v", "a", "l", "u", "e", "s", " ", "(", "1", ",", " ", "t", "r", "u", "e", ")">>
L_insert_into_csv == <<"i", "n", "s", "e", "r", "t", " ", "i", "n", "t", "o", " ", "t", " ", "v", "a", "l", "u", "e", "s", "(", "1", ",", ",", "t", "r", "u", "e", " ", ")">>
L_insert_into_none == <<"i", "n", "s", "e", "r", "t", " ", "i", "n", "t", "o", " ", "t", " ", "v", "a", "l", "u", "e", "s", " ", "(", ")">>
L_insert_kv == <<"i", "n", "s", "e", "r", "t", " ", "t", " ", "b", "=", "t", "r", "u", "e", " ", "a", "=", "1">>
L_insert_kv_b == <<"i", "n", "s", "e", "r", "t", " ", "t", " ", "a", "=", "1", " ", "b">>
L_select_from == <<"s", "e", "l", "e", "c", "t", " ", "f", "r", "o", "m", " ", "t">>
L_select_from_b == <<"s", "e", "l", "e", "c", "t", " ", "f", "r", "o", "m", " ", "t", " ", "w", "h", "e", "r", "e", " ", "b", " ", "=", " ", "t", "r", "u", "e">>
L_select_from_where == <<"s", "e", "l", "e", "c", "t", " ", "f", "r", "o", "m", " ", "t", " ", "w", "h", "e", "r", "e">>
L_select_t == <<"s", "e", "l", "e", "c", "t", " ", "t">>
L_select_t_a == <<"s", "e", "l", "e", "c", "t", " ", "t", " ", "w", "h", "e", "r", "e", " ", "a", "=", "1">>
L_select_t_where == <<"s", "e", "l", "e", "c", "t", " ", "t", " ", "w", "h", "e", "r", "e">>
L_delete_from_id == <<"d", "e", "l", "e", "t", "e", " ", "f", "r", "o", "m", " ", "t", " ", "w", "h", "e", "r", "e", " ", "I", "D", " ", "=", " ", "1">>
L_delete_from_and == <<"d", "e", "l", "e", "t", "e", " ", " ", "f", "r", "o", "m", " ", "t", " ", " ", "w", "h", "e", "r", "e", " ", "a", " ", "=", " ", "1", " ", "a", "n", "d", " ", "b", " ", "=", " ", "t", "r", "u", "e">>
L_delete_from == <<"d", "e", "l", "e", "t", "e", " ", "f", "r", "o", "m", " ", "t">>
L_delete_from_where == <<"d", "e", "l", "e", "t", "e", " ", "f", "r", "o", "m", " ", "t", " ", "w", "h", "e", "r", "e">>
L_delete_t_b == <<"d", "e", "l", "e", "t", "e", " ", "t", " ", "w", "h", "e", "r", "e", " ", "b", " ", "=", " ", "t", "r", "u", "e">>
L_delete_t == <<"d", "e", "l", "e", "t", "e", " ", "t">>
L_delete_t_where == <<"d", "e", "l", "e", "t", "e", " ", "t", " ", "w", "h", "e", "r", "e">>
L_delete_t_where_a == <<"d", "e", "l", "e", "t", "e", " ", "t", " ", "w", "h", "e", "r", "e", " ", "a">>
L_update_id == <<"u", "p", "d", "a", "t", "e", " ", "t", " ", "s", "e", "t", " ", "a", " ", "=", " ", "2", " ", "w", "h", "e", "r", "e", " ", "I", "D", " ", "=", " ", "1">>
L_update_two == <<"u", "p", "d", "a", "t", "e", " ", "t", " ", "s", "e", "t", " ", "a", " ", "=", " ", "2", ",", " ", "b", " ", "=", " ", "f", "a", "l", "s", "e", " ", " ", "w", "h", "e", "r", "e", " ", "b", " ", "=", " ", "t", "r", "u", "e">>
L_update_5 == <<"u", "p", "d", "a", "t", "e", " ", "t", " ", "s", "e", "t", " ", "5", " ", "w", "h", "e", "r", "e", " ", "I", "D", " ", "=", " ", "1">>
L_update_no_where == <<"u", "p", "d", "a", "t", "e", " ", "t", " ", "s", "e", "t", " ", "a", " ", "=", " ", "2">>
L_update_kv_no_where == <<"u", "p", "d", "a", "t", "e", " ", "t", " ", "s", "e", "t", " ", "a", "=", "2">>
L_update_kv_where == <<"u", "p", "d", "a", "t", "e", " ", "t", " ", "s", "e", "t", " ", "a", "=", "2", " ", "w", "h", "e", "r", "e">>
L_update_set_where == <<"u", "p", "d", "a", "t", "e", " ", "t", " ", "s", "e", "t", " ", "w", "h", "e", "r", "e", " ", "a", " ", "=", " ", "1">>
L_update_blank_set == <<"u", "p", "d", "a", "t", "e", " ", "t", " ", "s", "e", "t", " ", " ", " ", "w", "h", "e", "r", "e", " ", "I", "D", " ", "=", " ", "1">>
L_update_t_a == <<"u", "p", "d", "a", "t", "e", " ", "t", " ", "a", "=", "2", " ", "w", "h", "e", "r", "e", " ", "I", "D", " ", "=", " ", "1">>
L_frobnicate == <<"f", "r", "o", "b", "n", "i", "c", "a", "t", "e", " ", "t">>
L_empty == <<" ">>

Lines ==
    { L_exit, L_help, L_list_tables, L_exit_now,
      L_help_me, L_list_tables_x, L_info, L_info_t,
      L_info_t_x, L_create_table, L_create_table_t, L_create_table_t_ab,
      L_drop_table, L_drop_table_t, L_drop_table_t_x, L_insert_into_1_true,
      L_insert_into_csv, L_insert_into_none, L_insert_kv, L_insert_kv_b,
      L_select_from, L_select_from_b, L_select_from_where, L_select_t,
      L_select_t_a, L_select_t_where, L_delete_from_id, L_delete_from_and,
      L_delete_from, L_delete_from_where, L_delete_t_b, L_delete_t,
      L_delete_t_where, L_delete_t_where_a, L_update_id, L_update_two,
      L_update_5, L_update_no_where, L_update_kv_no_where, L_update_kv_where,
      L_update_set_where, L_update_blank_set, L_update_t_a, L_frobnicate,
      L_empty }

CanWriteParse == clock < MaxParseWrites
CanCacheParse(table_name, where_clause) ==
    \/ CacheKey(table_name, where_clause) \in DOMAIN cache
    \/ Cardinality(DOMAIN cache) < MaxParseEntries

\* each line of Lines with what parse_command gives for it
ParsedLines == {[line |-> l, parsed |-> ParseCommand(l)] : l \in Lines}

\* engine.run 179-184: the line read and the command parse_command returns
Read(p, name) ==
    /\ p.parsed.err = NoErr
    /\ p.parsed.cmd.name = name
    /\ line' = p.line
    /\ cmd' = p.parsed.cmd
    /\ UNCHANGED seen

NextParse ==
    \/ \E p \in ParsedLines :
          /\ p.parsed.err # NoErr
          /\ RunParseError
          /\ line' = p.line
          /\ cmd' = NoCommand
          /\ UNCHANGED seen
    \/ \E p \in ParsedLines : Read(p, "help") /\ RunHelp
    \/ \E p \in ParsedLines : Read(p, "exit") /\ RunExit
    \/ \E p \in ParsedLines :
          /\ CanWriteParse
          /\ Read(p, "create_table")
          /\ HandleCreateTable(cmd'.table, cmd'.columns)
    \/ \E p \in ParsedLines : Read(p, "list_tables") /\ HandleListTables
    \/ \E p \in ParsedLines, a \in {A_y, A_n} :
          Read(p, "drop_table") /\ HandleDropTable(cmd'.table, a)
    \/ \E p \in ParsedLines : Read(p, "info") /\ HandleInfo(cmd'.table)
    \/ \E p \in ParsedLines :
          /\ CanWriteParse
          /\ Read(p, "insert")
          /\ HandleInsert(cmd'.table, cmd'.values)
    \/ \E p \in ParsedLines :
          /\ CanWriteParse
          /\ Read(p, "insert_kv")
          /\ HandleInsertKv(cmd'.table, cmd'.set_clause)
    \/ \E p \in ParsedLines :
          /\ CanWriteParse
          /\ Read(p, "update")
          /\ HandleUpdate(cmd'.table, cmd'.set_clause, cmd'.where_clause)
    \/ \E p \in ParsedLines, a \in {A_y, A_n} :
          /\ CanWriteParse
          /\ Read(p, "delete")
          /\ HandleDelete(cmd'.table, cmd'.where_clause, a)
    \/ \E p \in ParsedLines :
          /\ Read(p, "select")
          /\ CanCacheParse(cmd'.table, cmd'.where_clause)
          /\ RunSelect(cmd'.table, cmd'.where_clause)

SpecParse == Init /\ [][NextParse]_vars

(***************************************************************************)
(* The claims.                                                             *)
(***************************************************************************)
Ids(rows) == [i \in 1..Len(rows) |-> rows[i][ID_COLUMN].i]

IdSet(rows) == {rows[i][ID_COLUMN].i : i \in 1..Len(rows)}

Largest(S) == IF S = {} THEN 0 ELSE CHOOSE m \in S : \A k \in S : k <= m

\* a step that appends a row to table n
Inserted(n) == n \in DOMAIN files /\ n \in DOMAIN files' /\ Len(files'[n]) = Len(files[n]) + 1

ColumnNames(n) == {meta[n][i].name : i \in 1..Len(meta[n])}

\* the answers of Answers that confirm: "y", "yes", "д", "да" in any case,
\* blanks around them ignored
Affirmative == {A_y, A_YES, A_Da}

\* C1: between a table's create_table and its drop_table, the ID an insert
\* assigns differs from every ID assigned to an earlier row of the table,
\* the rows deleted since included.
C1_IdsNeverReused ==
    [][\A n \in DOMAIN issued : Inserted(n) => out'.new_id \notin issued[n]]_vars

\* C2: whatever a command fails with, the loop reports it and reads the next
\* command: the loop ends only on the exit command.
C2_LoopEndsOnlyOnExit ==
    status = "running" \/ (status = "exited" /\ out.verb = "exit")

\* C3: a create_table, drop_table, insert, update or delete that ends with an
\* error leaves the persisted metadata and the persisted rows of every table
\* what they were before the command.
C3_NoPartialMutation ==
    [][(out'.err # NoErr
        /\ out'.verb \in {"create_table", "drop_table", "insert", "insert_kv", "update", "delete"})
       => meta' = meta /\ files' = files]_vars

C3_Witness ==
    /\ out.verb = "update"
    /\ out.err = InvalidValue
    /\ out.table \in DOMAIN files
    /\ files[out.table] # <<>>

\* C4: a drop_table or delete whose prompt is answered with an affirmative
\* token runs; with any other answer it reports the cancellation and leaves
\* metadata, rows and the table's file unchanged.
C4_ConfirmationGate ==
    [][out'.verb \in {"drop_table", "delete"}
       => \A a \in Answers :
            (HandleDropTable(out'.table, a) \/ \E w \in WhereClauses : HandleDelete(out'.table, w, a))
            => IF a \in Affirmative THEN ~out'.cancelled
               ELSE out'.cancelled /\ meta' = meta /\ files' = files /\ mtime' = mtime]_vars

C4_Witness ==
    /\ out.verb = "drop_table"
    /\ out.cancelled
    /\ out.table \in DOMAIN meta
    /\ out.table \in DOMAIN files
    /\ files[out.table] # <<>>

\* C5: no two rows of the same table have the same ID.
C5_IdsUnique ==
    \A n \in DOMAIN files : \A i, j \in 1..Len(files[n]) :
        i # j => ~PyEq(files[n][i][ID_COLUMN], files[n][j][ID_COLUMN])

C5_Witness ==
    /\ N_t \in DOMAIN files
    /\ Len(files[N_t]) >= 2
    /\ files[N_t][1][ID_COLUMN] = PyInt(2)
    /\ out.verb = "insert"
    /\ out.err = NoErr

\* C6: no table's schema in the metadata holds two columns of the same name.
C6_ColumnNamesUnique ==
    \A n \in DOMAIN meta : \A i, j \in 1..Len(meta[n]) :
        i # j => meta[n][i].name # meta[n][j].name

Undeclared(n, clause) == \E i \in 1..Len(clause) : clause[i].col \notin ColumnNames(n)

Coerces(n, item) == CoerceValue(SchemaMap(meta[n])[item.col], item.val).err = NoErr

\* the checks of an update that come before the one that reports an
\* undeclared column: the set-clause is not empty and does not name ID; for an
\* undeclared column of the set-clause, the where column is declared, its
\* value coerces and so does every set item before the first undeclared one
ReachesColumnCheck(n, s, w) ==
    /\ s # <<>>
    /\ ID_COLUMN \notin Keys(s)
    /\ \/ Undeclared(n, w)
       \/ /\ Coerces(n, w[1])
          /\ \A i \in 1..Len(s) :
               (\A j \in 1..i : s[j].col \in ColumnNames(n)) => Coerces(n, s[i])

C8_RepeatedSelectIsCached ==
    [][out'.verb = "select"
       => \A w \in CacheClauses :
            (<<N_t, w>> \in DOMAIN seen /\ RunSelect(N_t, w))
            => out'.hit /\ out'.err = NoErr /\ out'.rows = seen[<<N_t, w>>]]_vars

C8_Witness ==
    /\ out.verb = "select"
    /\ out.hit
    /\ out.rows # <<>>
    /\ Cardinality(DOMAIN cache) >= 2

\* the column and the typed value each where-clause of RowWhereClauses stands
\* for on a table of columns ID:int, a:int, b:bool
RowWhereMeaning(w) ==
    CASE w = <<Item(ID_COLUMN, PyInt(1))>> -> Item(ID_COLUMN, PyInt(1))
      [] w = <<Item(ID_COLUMN, PyStr(<<"2">>))>> -> Item(ID_COLUMN, PyInt(2))
      [] w = <<Item(C_a, PyStr(<<"1">>))>> -> Item(C_a, PyInt(1))
      [] w = <<Item(C_b, PyStr(A_yes))>> -> Item(C_b, PyBool(TRUE))

\* C9: a confirmed delete removes exactly the rows whose predicate column
\* equals the coerced predicate value, returns their IDs in row order and keeps
\* the other rows unchanged in their order.
C9_DeleteExact ==
    [][out'.verb = "delete" /\ out'.err = NoErr /\ ~out'.cancelled
       => \A w \in RowWhereClauses :
            HandleDelete(out'.table, w, A_y)
            => LET hit(r) == r[RowWhereMeaning(w).col] = RowWhereMeaning(w).val
                   miss(r) == ~hit(r)
               IN  /\ files' = [files EXCEPT ![out'.table] = SelectSeq(@, miss)]
                   /\ out'.ids = Ids(SelectSeq(files[out'.table], hit))]_vars

C9_Witness ==
    /\ out.verb = "delete"
    /\ out.err = NoErr
    /\ Len(out.ids) >= 2
    /\ out.ids[1] < out.ids[2]
    /\ out.table \in DOMAIN files
    /\ files[out.table] # <<>>

\* C10: an insert assigns 1 + the largest ID among the rows of the table (1
\* for an empty table) and appends the row with that ID, so that successive
\* inserts into an empty table yield 1, 2, 3, ... and, after IDs 1, 2, 3 are
\* inserted and ID 2 is deleted, the next insert yields 4.
C10_NewIdIsMaxPlusOne ==
    [][\A n \in DOMAIN files :
         Inserted(n)
         => /\ out'.new_id = Largest(IdSet(files[n])) + 1
            /\ SubSeq(files'[n], 1, Len(files[n])) = files[n]
            /\ files'[n][Len(files'[n])][ID_COLUMN] = PyInt(Largest(IdSet(files[n])) + 1)]_vars

C10_Witness ==
    /\ N_t \in DOMAIN files
    /\ Len(files[N_t]) = 3
    /\ Ids(files[N_t]) = <<1, 3, 4>>
    /\ out.verb = "insert"
    /\ out.new_id = 4

\* the names of the columns of table n other than ID, in schema order
NonIdNames(n) == SelectSeq([i \in 1..Len(meta[n]) |-> meta[n][i].name], LAMBDA c : c # ID_COLUMN)

\* C11: an insert whose number of values differs from the number of non-ID
\* columns of its table fails with InvalidValue, leaves the rows and the
\* metadata unchanged and consumes no ID: the next insert of the right number
\* of values gets the ID it would have got before.
C11_WrongArityInsertFails ==
    [][(cmd'.name = "insert" /\ cmd'.table \in DOMAIN meta
        /\ Len(cmd'.values) # Len(NonIdNames(cmd'.table)))
       => /\ out'.verb = "insert"
          /\ out'.err = InvalidValue
          /\ files' = files
          /\ meta' = meta
          /\ \A v \in ArityValueLists :
               InsertRecord(meta', cmd'.table, v, LoadTableData(files', cmd'.table)).new_id
                 = InsertRecord(meta, cmd'.table, v, LoadTableData(files, cmd'.table)).new_id]_vars

C11_Witness ==
    /\ cmd.name = "insert"
    /\ Len(cmd.values) = 3
    /\ out.verb = "insert"
    /\ out.err = InvalidValue
    /\ cmd.table \in DOMAIN files
    /\ Len(files[cmd.table]) >= 2

\* the value the pairs give for a column
ValueAt(kv, col) == (kv[CHOOSE j \in 1..Len(kv) : kv[j].col = col]).val

\* C18: an insert of the token form fails with InvalidValue and leaves the
\* rows unchanged when its pairs lack a non-ID column of the table; when they
\* hold every one, it appends the row, and reports the new ID, of the sentence
\* form given the values of the pairs in schema order.
C18_TokenInsertAsSentenceInsert ==
    [][(cmd'.name = "insert_kv" /\ cmd'.table \in DOMAIN meta)
       => LET n == cmd'.table
              kv == cmd'.set_clause
              names == NonIdNames(n)
              values == [i \in 1..Len(names) |-> ValueAt(kv, names[i])]
              res == InsertRecord(meta, n, values, LoadTableData(files, n))
          IN  /\ out'.verb = "insert_kv"
              /\ IF \E i \in 1..Len(names) : names[i] \notin Keys(kv)
                 THEN out'.err = InvalidValue /\ files' = files
                 ELSE /\ out'.err = res.err
                      /\ out'.new_id = res.new_id
                      /\ res.err = NoErr => files' = [files EXCEPT ![n] = res.rows]
                      /\ res.err # NoErr => files' = files]_vars

C18_Witness ==
    /\ cmd.name = "insert_kv"
    /\ Len(cmd.set_clause) = 2
    /\ cmd.set_clause[1].col = C_b
    /\ out.err = NoErr
    /\ out.new_id = 2
    /\ cmd.table \in DOMAIN files
    /\ Len(files[cmd.table]) = 2
    /\ files[cmd.table][2] = (C_a :> PyInt(2) @@ C_b :> PyBool(FALSE) @@ ID_COLUMN :> PyInt(2))

\* C12: an update whose set-clause names ID, or is empty, fails whatever the
\* table, the where-clause and the rows are (InvalidValue on a table of the
\* metadata, NotFound on an absent one), and changes no row.
C12_UpdateOfIdOrNothingFails ==
    [][(cmd'.name = "update"
        /\ (cmd'.set_clause = <<>> \/ ID_COLUMN \in Keys(cmd'.set_clause)))
       => /\ out'.verb = "update"
          /\ out'.err = IF cmd'.table \in DOMAIN meta THEN InvalidValue ELSE KeyError
          /\ files' = files
          /\ meta' = meta
          /\ mtime' = mtime]_vars

C12_Witness ==
    /\ cmd.name = "update"
    /\ Keys(cmd.set_clause) = {C_a, ID_COLUMN}
    /\ cmd.where_clause = <<Item(ID_COLUMN, PyInt(1))>>
    /\ out.err = InvalidValue
    /\ cmd.table \in DOMAIN files
    /\ Len(files[cmd.table]) >= 2

C12_WitnessEmpty ==
    /\ cmd.name = "update"
    /\ cmd.set_clause = <<>>
    /\ cmd.where_clause = <<Item(C_b, PyStr(A_yes))>>
    /\ out.err = InvalidValue
    /\ cmd.table \in DOMAIN files
    /\ \E i \in 1..Len(files[cmd.table]) : files[cmd.table][i][C_b] = PyBool(TRUE)

\* what each predicate of PredicateClauses stands for on a table of columns
\* ID:int, a:int, b:bool: the typed value its text denotes, or none
PredicateMeaning(w) ==
    CASE w = W_a1 -> [ok |-> TRUE, col |-> C_a, val |-> PyInt(1)]
      [] w \in {W_byes, W_bYES, W_bDa} -> [ok |-> TRUE, col |-> C_b, val |-> PyBool(TRUE)]
      [] OTHER -> [ok |-> FALSE, col |-> <<>>, val |-> PyNone]

\* C13: the value of a select's predicate is coerced to the type of its
\* column before the comparison: the text "1" on an int column selects the
\* rows holding the integer 1, a truthy token on a bool column selects
\* exactly the rows holding true, and a text the column's type does not take
\* makes the select fail with InvalidValue, not return no rows.
C13_PredicateIsCoerced ==
    [][(cmd'.name = "select" /\ cmd'.table \in DOMAIN meta /\ cmd'.where_clause # <<>>)
       => LET m == PredicateMeaning(cmd'.where_clause)
              typed(r) == r[m.col] = m.val
          IN  /\ out'.verb = "select"
              /\ IF m.ok
                 THEN out'.err = NoErr /\ out'.rows = SelectSeq(files[cmd'.table], typed)
                 ELSE out'.err = InvalidValue /\ out'.rows = <<>>]_vars

C13_Witness ==
    /\ cmd.name = "select"
    /\ cmd.where_clause = W_bDa
    /\ out.err = NoErr
    /\ Len(out.rows) = 2
    /\ Len(files[cmd.table]) = 3

C13_WitnessInvalid ==
    /\ cmd.name = "select"
    /\ cmd.where_clause = W_ax
    /\ out.err = InvalidValue
    /\ cmd.table \in DOMAIN files
    /\ files[cmd.table] # <<>>

\* C14: a select on a table of the metadata returns, without a predicate, all
\* the stored rows in their stored order and, with a predicate, the stored
\* rows that match it and no other, in their stored order; no select, failed
\* ones included, changes the stored rows, the row files or the metadata.
C14_SelectReadsOnly ==
    [][cmd'.name = "select"
       => /\ out'.verb = "select"
          /\ meta' = meta /\ files' = files /\ mtime' = mtime
          /\ (cmd'.table \in DOMAIN meta /\ cmd'.where_clause = <<>>)
             => out'.err = NoErr /\ out'.rows = files[cmd'.table]
          /\ (cmd'.table \in DOMAIN meta /\ PredicateMeaning(cmd'.where_clause).ok)
             => LET m == PredicateMeaning(cmd'.where_clause)
                    stored == files[cmd'.table]
                    at == {i \in 1..Len(stored) : stored[i][m.col] = m.val}
                    nth(k) == CHOOSE i \in at : Cardinality({j \in at : j < i}) = k - 1
                IN  /\ Len(out'.rows) = Cardinality(at)
                    /\ \A k \in 1..Cardinality(at) : out'.rows[k] = stored[nth(k)]]_vars

C14_Witness ==
    /\ cmd.name = "select"
    /\ cmd.where_clause = <<>>
    /\ out.err = NoErr
    /\ Len(out.rows) = 3
    /\ out.rows[3][C_b] = PyBool(FALSE)
    /\ out.rows = files[cmd.table]

\* the schema each valid column list of TableColumnLists asks for
SchemaAskedFor(columns) ==
    CASE columns = Cols_ab ->
            <<Column(ID_COLUMN, T_int), Column(C_a, T_int), Column(C_b, T_bool)>>
      [] columns = Cols_name_age ->
            <<Column(ID_COLUMN, T_int), Column(C_name, T_str), Column(C_age, T_int)>>

\* C15: create_table on an identifier absent from the metadata, with valid
\* column specs, stores for it the schema ID:int followed by the given columns
\* in the given order and an empty row collection, and changes no other table;
\* on a name the metadata holds it fails with AlreadyExists and leaves the
\* schema and the rows of that table, and of every other, unchanged.
C15_CreateTableStoresSchema ==
    [][cmd'.name = "create_table"
       => LET n == cmd'.table
          IN  /\ out'.verb = "create_table"
              /\ n \in DOMAIN meta
                 => out'.err = DBExists /\ meta' = meta /\ files' = files
              /\ (n \notin DOMAIN meta /\ n \in ListedNames
                  /\ cmd'.columns \in {Cols_ab, Cols_name_age})
                 => /\ out'.err = NoErr
                    /\ DOMAIN meta' = DOMAIN meta \cup {n}
                    /\ meta'[n] = SchemaAskedFor(cmd'.columns)
                    /\ \A o \in DOMAIN meta : meta'[o] = meta[o]
                    /\ DOMAIN files' = DOMAIN files \cup {n}
                    /\ files'[n] = <<>>
                    /\ \A o \in DOMAIN files \ {n} : files'[o] = files[o]]_vars

C15_Witness ==
    /\ cmd.name = "create_table"
    /\ cmd.columns = Cols_name_age
    /\ out.err = DBExists
    /\ meta[cmd.table] = SchemaAskedFor(Cols_ab)
    /\ files[cmd.table] # <<>>

C15_WitnessCreated ==
    /\ cmd.name = "create_table"
    /\ out.err = NoErr
    /\ meta[cmd.table] = SchemaAskedFor(Cols_name_age)
    /\ Cardinality(DOMAIN meta) = 2

\* the names of ListedNames in lexicographic order
NamesInOrder == <<N_B, N_t, N_ta>>

\* C19: list_tables returns the names of the tables created and not dropped
\* since (the domain of issued), each once, in lexicographic order.
C19_ListTablesSorted ==
    [][cmd'.name = "list_tables"
       => /\ out'.verb = "list_tables"
          /\ out'.err = NoErr
          /\ out'.columns = SelectSeq(NamesInOrder, LAMBDA n : n \in DOMAIN issued)
          /\ meta' = meta /\ files' = files]_vars

C19_Witness ==
    /\ cmd.name = "list_tables"
    /\ out.columns = <<N_B, N_ta>>
    /\ DOMAIN files = {N_B, N_ta}
    /\ clock > Cardinality(DOMAIN files)

\* C17: in every reachable state the keys of every stored row are exactly the
\* column names of its table's schema, ID included.
C17_RowKeysAreColumns ==
    \A n \in DOMAIN files :
        /\ n \in DOMAIN meta
        /\ \A i \in 1..Len(files[n]) : DOMAIN files[n][i] = ColumnNames(n)

C17_Witness ==
    /\ out.verb = "update"
    /\ out.err = NoErr
    /\ out.ids = <<1>>
    /\ files[out.table][1][C_a] = PyInt(2)

\* C16: a confirmed drop_table of a table of the metadata removes it from the
\* metadata together with its rows file, and a confirmed drop_table of an
\* absent table fails with NotFound and changes nothing; a create_table that
\* succeeds starts the table with no rows, and every row a select returns is a
\* row stored now, inserted since the table was last created (its ID is in
\* issued), never one of a dropped table of the same name.
C16_DropCascadesToRows ==
    [][out'.verb \in {"drop_table", "create_table", "select"}
       => /\ HandleDropTable(N_t, A_y)
             => IF N_t \in DOMAIN meta
                THEN /\ out'.err = NoErr
                     /\ N_t \notin DOMAIN meta'
                     /\ N_t \notin DOMAIN files'
                ELSE /\ out'.err = DBMissing
                     /\ meta' = meta /\ files' = files /\ mtime' = mtime
          /\ (out'.verb = "create_table" /\ out'.err = NoErr)
             => files'[N_t] = <<>> /\ issued'[N_t] = {}
          /\ (out'.verb = "select" /\ out'.err = NoErr)
             => /\ \A i \in 1..Len(out'.rows) :
                     \E j \in 1..Len(files[N_t]) : out'.rows[i] = files[N_t][j]
                /\ IdSet(out'.rows) \subseteq issued[N_t]
                /\ Len(out'.rows) <= Cardinality(issued[N_t])]_vars

C16_Witness ==
    /\ out.verb = "select"
    /\ out.err = NoErr
    /\ out.rows = <<>>
    /\ issued[N_t] = {}
    /\ \E k \in DOMAIN cache : k.table = N_t /\ k.where = <<>> /\ cache[k] # <<>>

\* C20: with every write of a rows file giving it a modification time it never
\* had, a select returns what select_records gives on the rows and the schema
\* stored at that moment, and fails when select_records fails on them: after
\* an insert, an update, a delete or a drop_table and create_table it never
\* returns a result cached before.
C20_CacheNeverStale ==
    [][out'.verb = "select"
       => \A w \in CacheClauses :
            RunSelect(N_t, w)
            => LET res == SelectRecords(meta, N_t, LoadTableData(files, N_t), w)
               IN  /\ out'.err = res.err
                   /\ res.err = NoErr => out'.rows = res.rows]_vars

C20_Witness ==
    /\ out.verb = "select"
    /\ out.err = NoErr
    /\ ~out.hit
    /\ \E k1, k2 \in DOMAIN cache :
          /\ k1.table = k2.table
          /\ k1.where = k2.where
          /\ k1.mtime < k2.mtime
          /\ k2.mtime = MTime(k2.table)
          /\ cache[k1] # cache[k2]
          /\ cache[k1] # <<>>
          /\ out.rows = cache[k2]

\* the column and the typed value each where-clause of UpdateWhereClauses that
\* a table of columns ID:int, a:int, b:bool accepts stands for
UpdateWhereMeaning(w) ==
    CASE w = <<Item(ID_COLUMN, PyInt(1))>> -> Item(ID_COLUMN, PyInt(1))
      [] w = <<Item(C_b, PyStr(A_yes))>> -> Item(C_b, PyBool(TRUE))

\* the column and the typed value each set-clause of SetPairLists that such a
\* table accepts stands for
UpdateSetMeaning(set_clause) ==
    CASE set_clause = <<Item(C_a, PyInt(2))>> -> Item(C_a, PyInt(2))
      [] set_clause = <<Item(C_b, PyStr(<<"n", "o">>))>> -> Item(C_b, PyBool(FALSE))

\* C21: a successful update sets the set-clause column to its coerced value in
\* every row that matches the predicate and returns the IDs of those rows in
\* row order; the other columns of those rows, the rows that do not match,
\* the number and the order of the rows and the ID of every row stay as they
\* were, and so do the other tables and the metadata.
C21_UpdateChangesOnlySetColumns ==
    [][(cmd'.name = "update" /\ out'.verb = "update" /\ out'.err = NoErr)
       => LET n == cmd'.table
              stored == files[n]
              now == files'[n]
              w == UpdateWhereMeaning(cmd'.where_clause)
              set == UpdateSetMeaning(cmd'.set_clause)
              hit(r) == r[w.col] = w.val
          IN  /\ Len(now) = Len(stored)
              /\ \A i \in 1..Len(stored) :
                    /\ now[i][ID_COLUMN] = stored[i][ID_COLUMN]
                    /\ now[i] = IF hit(stored[i]) THEN [stored[i] EXCEPT ![set.col] = set.val]
                                ELSE stored[i]
              /\ out'.ids = Ids(SelectSeq(stored, hit))
              /\ DOMAIN files' = DOMAIN files
              /\ \A o \in DOMAIN files \ {n} : files'[o] = files[o]
              /\ meta' = meta]_vars

C21_Witness ==
    /\ cmd.name = "update"
    /\ cmd.set_clause = <<Item(C_b, PyStr(<<"n", "o">>))>>
    /\ cmd.where_clause = <<Item(ID_COLUMN, PyInt(1))>>
    /\ out.err = NoErr
    /\ out.ids = <<1>>
    /\ Len(files[cmd.table]) = 2
    /\ files[cmd.table][1] = (C_a :> PyInt(1) @@ C_b :> PyBool(FALSE) @@ ID_COLUMN :> PyInt(1))
    /\ files[cmd.table][2] = (C_a :> PyInt(1) @@ C_b :> PyBool(TRUE) @@ ID_COLUMN :> PyInt(2))

\* the type name a stored value has: an integer that is not a boolean is an
\* int, a string is a str, a boolean is a bool
TypeNameOf(v) ==
    CASE v.t = "int" -> T_int
      [] v.t = "str" -> T_str
      [] v.t = "bool" -> T_bool
      [] OTHER -> <<>>

\* C22: in every reachable state every value of every stored row has the type
\* its column declares: for each column of the table's schema the row holds,
\* under the column's name, an integer (never a boolean) when the column is
\* int, a string when it is str and a boolean when it is bool.
C22_ValuesHaveDeclaredType ==
    \A n \in DOMAIN files :
        n \in DOMAIN meta
        => \A i \in 1..Len(files[n]) :
              \A k \in 1..Len(meta[n]) :
                 /\ meta[n][k].name \in DOMAIN files[n][i]
                 /\ TypeNameOf(files[n][i][meta[n][k].name]) = meta[n][k].type_name

\* the error a confirmed delete of table t with each predicate of WhereClauses
\* ends with when the command is invalid, "" when it is valid: t is not a
\* table, zz is not a column, and "x" is not an integer for a column a:int
DeleteFault(w) ==
    CASE N_t \notin DOMAIN meta -> KeyError
      [] w = <<Item(C_zz, PyInt(1))>> -> KeyError
      [] w = <<Item(C_a, PyStr(<<"x">>))>> /\ Column(C_a, T_int) \in {meta[N_t][k] : k \in 1..Len(meta[N_t])}
                                          /\ Column(C_a, T_str) \notin {meta[N_t][k] : k \in 1..Len(meta[N_t])}
            -> InvalidValue
      [] OTHER -> NoErr

\* C25: the prompt of drop_table and of delete comes before any validation:
\* for a table that does not exist, a column the table does not have or a
\* value the column's type rejects, the NotFound or InvalidValue error is
\* reported only when the answer is affirmative, and with any other answer
\* the command reports the cancellation alone and changes nothing.
C25_PromptBeforeValidation ==
    [][out'.verb \in {"drop_table", "delete"}
       => \A a \in Answers :
            /\ (N_t \notin DOMAIN meta /\ HandleDropTable(N_t, a))
               => IF a \in Affirmative
                  THEN ~out'.cancelled /\ out'.err = DBMissing
                  ELSE out'.cancelled /\ out'.err = NoErr
            /\ \A w \in WhereClauses :
                 (DeleteFault(w) # NoErr /\ HandleDelete(N_t, w, a))
                 => IF a \in Affirmative
                    THEN ~out'.cancelled /\ out'.err = DeleteFault(w)
                    ELSE out'.cancelled /\ out'.err = NoErr
            /\ (out'.cancelled \/ out'.err # NoErr)
               => meta' = meta /\ files' = files /\ mtime' = mtime]_vars

\* a delete from a table dropped before was answered "no": only the
\* cancellation is reported
C25_Witness ==
    /\ out.verb = "delete"
    /\ out.cancelled
    /\ out.err = NoErr
    /\ out.table \notin DOMAIN meta
    /\ clock > 0

\* a delete answered "yes": the value is rejected after the prompt
C25_WitnessError ==
    /\ out.verb = "delete"
    /\ ~out.cancelled
    /\ out.err = InvalidValue
    /\ files[out.table] # <<>>

\* the lines of Lines with a wrong number of arguments: exit, help or
\* list_tables with an argument, info or drop_table with none or two,
\* create_table with no column specification
WrongCountLines ==
    { L_exit_now, L_help_me, L_list_tables_x,
      L_info, L_info_t_x, L_drop_table, L_drop_table_t_x,
      L_create_table, L_create_table_t }

\* a step that executes no operation and changes no state
NothingDone ==
    /\ out'.verb = "parse_error"
    /\ meta' = meta
    /\ files' = files
    /\ mtime' = mtime
    /\ clock' = clock
    /\ cache' = cache
    /\ status' = status

\* C23: a line with a wrong number of arguments fails to parse: exit, help or
\* list_tables followed by an argument, info or drop_table with a number of
\* arguments other than one, create_table with no column specification; the
\* line that fails to parse executes no operation and changes no state.
C23_WrongCountFailsToParse ==
    [][line' \in WrongCountLines => NothingDone]_vars

\* the part of C23 about the verbs whose arguments parse_command counts
\* (info, drop_table, create_table), and about every line that fails to parse
C23_CountedVerbsFail ==
    [][/\ line' \in WrongCountLines \ {L_exit_now, L_help_me, L_list_tables_x} => NothingDone
       /\ out'.verb = "parse_error" => NothingDone /\ cmd' = NoCommand]_vars

\* the lines of Lines with an update or a delete that has no predicate: no
\* where at all, or a where with nothing after it
NoPredicateLines ==
    { L_delete_from, L_delete_t, L_delete_t_where, L_delete_from_where,
      L_update_no_where, L_update_kv_no_where, L_update_kv_where }

\* the lines of Lines with a select, an update or a delete that has a predicate
PredicateLines ==
    { L_select_from_b, L_select_t_a, L_delete_from_id, L_delete_from_and, L_delete_t_b,
      L_update_id, L_update_two, L_update_set_where, L_update_blank_set }

\* the condition each line of PredicateLines states
PredicateOf(l) ==
    CASE l = L_select_from_b -> Item(C_b, PyBool(TRUE))
      [] l = L_select_t_a -> Item(C_a, PyInt(1))
      [] l = L_delete_from_id -> Item(ID_COLUMN, PyInt(1))
      [] l = L_delete_from_and ->
            Item(C_a, PyStr(<<"1", " ", "a", "n", "d", " ", "b", " ", "=", " ", "t", "r", "u", "e">>))
      [] l = L_delete_t_b -> Item(C_b, PyBool(TRUE))
      [] l = L_update_id -> Item(ID_COLUMN, PyInt(1))
      [] l = L_update_two -> Item(C_b, PyBool(TRUE))
      [] l = L_update_set_where -> Item(C_a, PyInt(1))
      [] l = L_update_blank_set -> Item(ID_COLUMN, PyInt(1))

\* C24: the where-clause of every command that reaches the engine has exactly
\* one condition: a select with a predicate, an update and a delete, in the
\* sentence or the token grammar, carry the one column = value pair their
\* line states; no update or delete is executed without a predicate: a line
\* whose where is missing or empty fails to parse and changes no row, and the
\* core functions themselves reject an empty where-clause.
C24_OnePredicate ==
    [][/\ Len(cmd'.where_clause) <= 1
       /\ cmd'.name \in {"update", "delete"} => Len(cmd'.where_clause) = 1
       /\ out'.verb \in {"update", "delete"}
          => cmd'.name = out'.verb /\ Len(cmd'.where_clause) = 1
       /\ line' \in PredicateLines => cmd'.where_clause = <<PredicateOf(line')>>
       /\ line' \in NoPredicateLines => NothingDone
       /\ \A n \in DOMAIN meta :
             /\ DeleteRecords(meta, n, LoadTableData(files, n), <<>>).err = InvalidValue
             /\ UpdateRecords(meta, n, LoadTableData(files, n),
                              <<Item(C_a, PyInt(2))>>, <<>>).err = InvalidValue]_vars

\* a delete in the token grammar ran with its one predicate and removed the row
C24_Witness ==
    /\ line = L_delete_t_b
    /\ cmd.name = "delete"
    /\ cmd.where_clause = <<Item(C_b, PyBool(TRUE))>>
    /\ out.verb = "delete"
    /\ ~out.cancelled
    /\ out.ids = <<1>>
    /\ files[cmd.table] = <<>>

\* an update with nothing after its where failed to parse, the row kept
C24_WitnessNoPredicate ==
    /\ line = L_update_kv_where
    /\ out.verb = "parse_error"
    /\ N_t \in DOMAIN files
    /\ files[N_t] # <<>>

\* a delete with two conditions joined by "and" reached the engine as one
\* condition, whose value the int column rejected
C24_WitnessAnd ==
    /\ line = L_delete_from_and
    /\ Len(cmd.where_clause) = 1
    /\ out.verb = "delete"
    /\ out.err = InvalidValue

====
